---------------------------- MODULE Spec2Model ----------------------------
(***************************************************************************)
(* A model of vito-root-service: the Unix-socket broker that authenticates *)
(* a peer by uid, admits it through a counting gate, parses one request    *)
(* and either runs a shell command (streaming stdout/stderr and a final    *)
(* exit record) or performs a version / check-update / update action.      *)
(*                                                                         *)
(* Specifications:                                                         *)
(*   Spec         the server: accept loop, handlers, executor, updater     *)
(*   SpecFair     Spec with its context watchers and main scheduled fairly *)
(*   SpecExec     one command handler, its pipes and drainers in detail    *)
(*   SpecExecFair SpecExec with the goroutines of the handler fair         *)
(*   SpecParse    protocol.ParseRequest over bounded request streams       *)
(*   SpecEnv      the environment merge of handleConnection                *)
(*   SpecReplace  updater.AtomicReplace on a small file system             *)
(*   SpecReplaceBoth  two calls of AtomicReplace at the same time          *)
(*   SpecVersion  isNewerVersion over triples of version strings           *)
(*   SpecAsset    FindAssetForPlatform over bounded releases               *)
(*   SpecExtract  extractBinary and sanitizePath, then AtomicReplace       *)
(*   SpecSocket   the socket file in Start and Shutdown                    *)
(*   SpecTimeout, SpecTimeoutFair  a command under max-exec-timeout        *)
(*   SpecNilCallbacks, SpecNilCallbacksFair  Run with absent callbacks     *)
(***************************************************************************)
EXTENDS Integers, Sequences, FiniteSets, TLC

(***************************************************************************)
(* Bounds of the model.                                                    *)
(***************************************************************************)
\* connections that arrive at the listener in one run
NumConns == 2
\* largest positive -max-connections value explored
MaxConnCfg == 1
\* chunks a child writes to each of stdout and stderr
MaxChunks == 1
\* protocol.MaxRequestSize (10 << 20 in the source), scaled down
MaxRequestSize == 4
\* bytes one Read of the buffered reader asks for (4096 in bufio), scaled down
ReadChunk == 2

\* bytes a child writes to each of stdout and stderr when its pipes are
\* followed byte by byte
MaxBytes == 3
\* executor.bufferSize (4096 in the source), scaled down
bufferSize == 2
\* the bytes a pipe holds before a write to it blocks (64 KiB on Linux),
\* scaled down: less than a child may write
pipeCapacity == 2

\* server.New: the capacity used when MaxConnections <= 0
DefaultMaxConn == 100

Conns == 1..NumConns
Streams == {"stdout", "stderr"}

Min(a, b) == IF a <= b THEN a ELSE b

(***************************************************************************)
(* protocol: responses                                                     *)
(***************************************************************************)
\* data is the output a Stdout or Stderr record carries: a sequence of
\* bytes, each named by its position in what the child wrote to the stream
Rec(t, x, n) == [type |-> t, text |-> x, code |-> n, data |-> <<>>]

StdoutResponse(data) == [Rec("stdout", "", 0) EXCEPT !.data = data]
StderrResponse(data) == [Rec("stderr", "", 0) EXCEPT !.data = data]
ExitResponse(code) == Rec("exit", "", code)
ErrorResponse(message) == Rec("error", message, 0)
UpdateResponse(status) == Rec("update", status, 0)
VersionResponse == Rec("version", "", 0)

(***************************************************************************)
(* protocol.ParseRequest                                                   *)
(*                                                                         *)
(* A request stream is what the peer sends before it stops sending: len    *)
(* bytes, then a newline when nl, then end of stream.  body is what        *)
(* json.Unmarshal makes of the len bytes: valid = FALSE is a syntax error. *)
(***************************************************************************)
Actions == {"", "version", "check-update", "update", "bogus"}
Commands == {"", "cmd"}

Bodies == [valid : BOOLEAN, Command : Commands, Action : Actions]

StreamTotal(s) == s.len + (IF s.nl THEN 1 ELSE 0)

\* bufio.Reader.ReadBytes('\n') over io.LimitedReader{N}: fill the buffer
\* until the delimiter is in it or a Read fails.  n is LimitedReader.N,
\* got the bytes read so far.
RECURSIVE ReadBytes(_, _, _)
ReadBytes(s, n, got) ==
    IF s.nl /\ got >= s.len + 1
    THEN [err |-> FALSE, N |-> n, read |-> got]
    ELSE IF n <= 0
    THEN [err |-> TRUE, N |-> n, read |-> got]
    ELSE IF got >= StreamTotal(s)
    THEN [err |-> TRUE, N |-> n, read |-> got]
    ELSE LET k == Min(ReadChunk, Min(n, StreamTotal(s) - got))
         IN  ReadBytes(s, n - k, got + k)

ParseErr(msg, r) == [ok |-> FALSE, err |-> msg, read |-> r,
                     Command |-> "", Action |-> ""]

\* a variant of ParseRequest that does not validate the action
ParseRequestAnyAction(s) ==
    LET r == ReadBytes(s, MaxRequestSize, 0) IN
    IF r.err
    THEN IF r.N <= 0
         THEN ParseErr("request too large", r.read)
         ELSE ParseErr("reading request", r.read)
    ELSE IF ~s.body.valid
    THEN ParseErr("parsing request JSON", r.read)
    ELSE IF s.body.Command = "" /\ s.body.Action = ""
    THEN ParseErr("request must have either command or action", r.read)
    ELSE [ok |-> TRUE, err |-> "", read |-> r.read,
          Command |-> s.body.Command, Action |-> s.body.Action]

\* a variant of ParseRequest that reads the connection without a limit
ParseRequestUnlimited(s) ==
    LET r == ReadBytes(s, StreamTotal(s) + 1, 0) IN
    IF r.err
    THEN ParseErr("reading request", r.read)
    ELSE IF ~s.body.valid
    THEN ParseErr("parsing request JSON", r.read)
    ELSE IF s.body.Command = "" /\ s.body.Action = ""
    THEN ParseErr("request must have either command or action", r.read)
    ELSE IF s.body.Action # ""
            /\ s.body.Action \notin {"update", "check-update", "version"}
    THEN ParseErr("unknown action", r.read)
    ELSE [ok |-> TRUE, err |-> "", read |-> r.read,
          Command |-> s.body.Command, Action |-> s.body.Action]

ParseRequest(s) ==
    LET r == ReadBytes(s, MaxRequestSize, 0) IN
    IF r.err
    THEN IF r.N <= 0
         THEN ParseErr("request too large", r.read)
         ELSE ParseErr("reading request", r.read)
    ELSE IF ~s.body.valid
    THEN ParseErr("parsing request JSON", r.read)
    ELSE IF s.body.Command = "" /\ s.body.Action = ""
    THEN ParseErr("request must have either command or action", r.read)
    ELSE IF s.body.Action # ""
            /\ s.body.Action \notin {"update", "check-update", "version"}
    THEN ParseErr("unknown action", r.read)
    ELSE [ok |-> TRUE, err |-> "", read |-> r.read,
          Command |-> s.body.Command, Action |-> s.body.Action]

NoStream == [len |-> 0, nl |-> FALSE,
             body |-> [valid |-> FALSE, Command |-> "", Action |-> ""]]
NotParsed == ParseErr("not parsed", 0)

\* every stream of the bounded model: lengths around the limit, with and
\* without the newline
AllStreams == [len : 0..(MaxRequestSize + 2), nl : BOOLEAN, body : Bodies]

\* the streams the peers of the server send: the longest line that fits, and
\* lines at and past the limit, each with and without its newline
MainStreams ==
    {s \in AllStreams :
        s.len \in {MaxRequestSize - 1, MaxRequestSize, MaxRequestSize + 1}}

(***************************************************************************)
(* server.New: capacity of the gate connSem                                *)
(***************************************************************************)
New(maxConnections) ==
    IF maxConnections <= 0 THEN DefaultMaxConn ELSE maxConnections

(***************************************************************************)
(* server.AuthorizeConnection.  uid is the uid the kernel reports for the  *)
(* peer, NoCreds when getPeerCredentials fails.                            *)
(***************************************************************************)
AllowedUID == "vito"
NoCreds == "nocreds"
Uids == {"vito", "other"}

\* a variant of AuthorizeConnection that does not compare the uid
AuthorizeAnyUID(peerUID, allowedUID) ==
    IF peerUID = NoCreds THEN [creds |-> FALSE, err |-> TRUE]
    ELSE [creds |-> TRUE, err |-> FALSE]

AuthorizeConnection(peerUID, allowedUID) ==
    IF peerUID = NoCreds THEN [creds |-> FALSE, err |-> TRUE]
    ELSE IF peerUID # allowedUID THEN [creds |-> TRUE, err |-> TRUE]
    ELSE [creds |-> TRUE, err |-> FALSE]

(***************************************************************************)
(* State of the server                                                     *)
(***************************************************************************)
VARIABLES
    cfgMaxConnections,  \* config.Config.MaxConnections
    binaryPath,         \* Server.BinaryPath() # ""
    mainPc,             \* main: "running", "draining" (in Shutdown's wait),
                        \* "drained" (the wait is over), "exited", "timedout"
    rootCancelled,      \* the context of signal.NotifyContext is done
    restartRequested,   \* RequestRestart has signalled RestartChan
    listener,           \* "open" or "closed"
    acceptPc,           \* acceptLoop: "accept", "conn" (holds acceptConn), "stopped"
    acceptConn,         \* the connection acceptLoop is deciding on, 0 if none
    nextConn,           \* the next connection the listener will hand out
    connSem,            \* occupied slots of the gate
    wg                  \* Server.wg: admitted handlers not yet done

VARIABLES
    uid,                \* per connection: the peer uid seen by acceptLoop
    pc,                 \* per connection: position of its handler goroutine
    req,                \* per connection: the stream its peer sent and the
                        \* bytes ParseRequest read from it
    kind,               \* per connection: the parsed request, or its error
    upd,                \* per connection: what the updater found and did
    out,                \* per connection: the records written to it, in order
    closed,             \* per connection: the server closed it
    peerGone            \* per connection: the peer closed its end, writes fail

VARIABLES
    execCancelled,      \* per connection: execCancel() was called
    spawned,            \* per connection: cmd.Start() created a subprocess
    child,              \* per connection: "none", "running", "exited",
                        \* "killed" (by the signal of cmd.Cancel), "reaped"
    status,             \* per connection: the child's wait status
    produced,           \* per connection and stream: chunks the child wrote
    pipe,               \* per connection and stream: the bytes in the pipe
    drainer,            \* per connection and stream: "idle","read","cb","done"
    buf,                \* per connection and stream: buf[:n] of readPipe
    termSent,           \* per connection: cmd.Cancel signalled the group
    runResult           \* per connection: what Executor.Run returned

\* what the specifications of the command timeout and of Run with absent
\* sinks add
VARIABLES
    maxExecTimeout,     \* the flag max-exec-timeout: 0, or a duration T > 0
    timedOut,           \* per connection: the deadline of execCtx has passed
    hasCallback,        \* per stream: Executor.OnStdout / OnStderr is not nil
    blocked             \* per connection: the stream whose full pipe the
                        \* child is blocked writing to, "" if none

\* what the specification of cancellation adds
VARIABLES
    descendant,         \* per connection: a process the child forked that
                        \* holds the write ends of its pipes: "none",
                        \* "obeys" (in the group, dies of SIGTERM) or
                        \* "ignores" (ignores SIGTERM, or left the group)
    graceTicks,         \* per connection: the time that has passed of the
                        \* timer exec started after cmd.Cancel
    killSent            \* per connection: exec sent SIGKILL to the child

cancelVars == <<descendant, graceTicks, killSent>>

\* what the specification of the writer mutex adds
VARIABLES
    writeMu             \* per connection: the goroutine that holds writeMu
                        \* while it is not writing yet: "stdout" or
                        \* "stderr" (the drainer in its callback), "main"
                        \* (the handler), "" when nobody does

runVars == <<maxExecTimeout, timedOut, hasCallback, blocked, cancelVars, writeMu>>

srvVars == <<cfgMaxConnections, binaryPath, mainPc, rootCancelled,
             restartRequested, listener, acceptPc, acceptConn, nextConn,
             connSem, wg>>
connVars == <<uid, pc, req, kind, upd, out, closed, peerGone>>
execVars == <<execCancelled, spawned, child, status, produced, pipe, drainer, buf,
              termSent, runResult>>

\* the variables of the specifications of single functions
VARIABLES
    stream,             \* SpecParse: the request stream given to ParseRequest
    parsed,             \* SpecParse: what ParseRequest returned
    reqEnv,             \* SpecEnv: the keys of req.Env
    rest,               \* SpecEnv: the keys the range loop has not visited
    env,                \* SpecEnv: the environment vector built so far
    fs,                 \* SpecReplace: the file at each path
    ar                  \* SpecReplace: per connection, the position of its
                        \* call of AtomicReplace, the error it returned, the
                        \* live binary before the call, its open temp file

\* the variables of the specifications of the updater's functions and of
\* the socket file
VARIABLES
    versions,           \* SpecVersion: three version strings, as they
                        \* come from the build and from release tags
    cmp,                \* SpecVersion: what isNewerVersion said of each pair
    assets,             \* SpecAsset: the names of release.Assets, in order
    asset,              \* SpecAsset: what FindAssetForPlatform returned
    tarball,            \* SpecExtract: the entries of the downloaded archive
    extracted,          \* SpecExtract: what extractBinary returned
    sock                \* SpecSocket: LISTEN_FDS, descriptor 3, the socket
                        \* file, and what Start and Shutdown did with it

updVars == <<versions, cmp, assets, asset, tarball, extracted>>

pureVars == <<stream, parsed, reqEnv, rest, env, fs, ar, updVars, sock>>

vars == <<srvVars, connVars, execVars, runVars, pureVars>>

\* what a connection's peer sent (len, nl), how many bytes ParseRequest read
\* of it and the action of the request it returned
NoRequest == [len |-> 0, nl |-> FALSE, read |-> 0, Action |-> ""]

RequestOf(s) ==
    [len |-> s.len, nl |-> s.nl, read |-> ParseRequest(s).read,
     Action |-> ParseRequest(s).Action]
NoResult == [code |-> 0, err |-> ""]

\* the updater has done nothing: found is what discovery reported, downloaded
\* that DownloadAndExtract was called, replaced that AtomicReplace succeeded
NoUpdate == [found |-> "none", downloaded |-> FALSE, replaced |-> FALSE]

\* updater.minBinarySize (100 * 1024 in the source), scaled down: the size
\* of a file is the number of chunks of its content
minBinarySize == 2

\* a file: id names the file itself (its inode), whatever path names it;
\* content is the sequence of its chunks, mode what matters of its
\* permission bits, owner its uid and gid
File(id, content, mode, owner) ==
    [exists |-> TRUE, id |-> id, content |-> content, mode |-> mode,
     owner |-> owner]
NoFile == [exists |-> FALSE, id |-> 0, content |-> <<>>, mode |-> "",
           owner |-> ""]

\* a complete binary: minBinarySize chunks of one build
Image(build) == [i \in 1..minBinarySize |-> build]

\* the paths of AtomicReplace(srcPath, targetPath); tempPath is
\* filepath.Join(dir, "."+base+".new")
srcPath == "extracted/binary"
targetPath == "dir/binary"
tempPathInPlace == "dir/binary"
tempPath == "dir/.binary.new"
Paths == {srcPath, targetPath, tempPath}

\* a call of AtomicReplace that has not begun: dst is the file its open
\* descriptor of the temp file names, 0 when it has none
NoFiles == [p \in Paths |-> NoFile]
NotCalled == [pc |-> "idle", err |-> "", before |-> NoFile, dst |-> 0]
NoCalls == [c \in Conns |-> NotCalled]

\* isNewerVersion was not called
NotCompared == [done |-> FALSE, newer |-> {}]
\* FindAssetForPlatform was not called: index is the place in
\* release.Assets of the asset it returns, 0 with an error
NotSearched == [done |-> FALSE, err |-> FALSE, index |-> 0]
\* extractBinary was not called: opened is the path it passed to os.OpenFile,
\* sane what sanitizePath said of each entry name
NotExtracted == [done |-> FALSE, err |-> "", path |-> <<>>, opened |-> <<>>,
                 written |-> 0, sane |-> <<>>]
\* Start was not called
NoSocket == [pc |-> "idle", listenFDs |-> <<>>, fd3 |-> "", file |-> "",
             file0 |-> "", mode |-> "", systemdSocket |-> FALSE,
             listener |-> "", did |-> <<>>]

\* no function of the updater is under way
UpdIdle ==
    /\ versions = <<>> /\ cmp = NotCompared
    /\ assets = <<>> /\ asset = NotSearched
    /\ tarball = <<>> /\ extracted = NotExtracted

\* no function of the single-function specifications is under way
PureIdle ==
    /\ stream = NoStream
    /\ parsed = NotParsed
    /\ reqEnv = {}
    /\ rest = {}
    /\ env = <<>>
    /\ fs = NoFiles
    /\ ar = NoCalls
    /\ UpdIdle
    /\ sock = NoSocket

InitServer ==
    /\ cfgMaxConnections \in (-1)..MaxConnCfg
    /\ binaryPath \in BOOLEAN
    /\ mainPc = "running"
    /\ rootCancelled = FALSE
    /\ restartRequested = FALSE
    /\ listener = "open"
    /\ acceptPc = "accept"
    /\ acceptConn = 0
    /\ nextConn = 1
    /\ connSem = 0
    /\ wg = 0
    /\ uid = [c \in Conns |-> "none"]
    /\ pc = [c \in Conns |-> "none"]
    /\ kind = [c \in Conns |-> "none"]
    /\ upd = [c \in Conns |-> NoUpdate]
    /\ req = [c \in Conns |-> NoRequest]
    /\ out = [c \in Conns |-> <<>>]
    /\ closed = [c \in Conns |-> FALSE]
    /\ peerGone = [c \in Conns |-> FALSE]
    /\ execCancelled = [c \in Conns |-> FALSE]
    /\ spawned = [c \in Conns |-> FALSE]
    /\ child = [c \in Conns |-> "none"]
    /\ status = [c \in Conns |-> 0]
    /\ produced = [c \in Conns |-> [s \in Streams |-> 0]]
    /\ pipe = [c \in Conns |-> [s \in Streams |-> <<>>]]
    /\ drainer = [c \in Conns |-> [s \in Streams |-> "idle"]]
    /\ buf = [c \in Conns |-> [s \in Streams |-> <<>>]]
    /\ termSent = [c \in Conns |-> FALSE]
    /\ runResult = [c \in Conns |-> NoResult]

\* no child has forked, no timer of exec runs, no writeMu is held
CancelIdle ==
    /\ writeMu = [c \in Conns |-> ""]
    /\ descendant = [c \in Conns |-> "none"]
    /\ graceTicks = [c \in Conns |-> 0]
    /\ killSent = [c \in Conns |-> FALSE]

\* no timeout is configured, the handler's two callbacks are set, no child
\* is blocked
RunIdle ==
    /\ maxExecTimeout = 0
    /\ timedOut = [c \in Conns |-> FALSE]
    /\ hasCallback = [s \in Streams |-> TRUE]
    /\ blocked = [c \in Conns |-> ""]
    /\ CancelIdle

Init == PureIdle /\ InitServer /\ RunIdle

\* the process is alive: returning from main ends every goroutine
Alive == mainPc \notin {"exited", "timedout"}

\* conn.Write of one record; the error of a failed write is the caller's
Write(c, r) == out' = [out EXCEPT ![c] = Append(@, r)]

(***************************************************************************)
(* Server.acceptLoop                                                       *)
(***************************************************************************)
\* listener.AcceptUnix returns the next connection
Accept(c) ==
    /\ UNCHANGED <<pureVars, runVars>>
    /\ Alive /\ acceptPc = "accept" /\ listener = "open"
    /\ c = nextConn
    /\ acceptPc' = "conn" /\ acceptConn' = c /\ nextConn' = c + 1
    /\ UNCHANGED <<cfgMaxConnections, binaryPath, mainPc, rootCancelled,
                   restartRequested, listener, connSem, wg>>
    /\ UNCHANGED <<connVars, execVars>>

\* the loop comes back to AcceptUnix after the listener was closed: it
\* returns net.ErrClosed
AcceptLoopExit ==
    /\ UNCHANGED <<pureVars, runVars>>
    /\ Alive /\ acceptPc = "accept" /\ listener = "closed"
    /\ acceptPc' = "stopped"
    /\ UNCHANGED <<cfgMaxConnections, binaryPath, mainPc, rootCancelled,
                   restartRequested, listener, acceptConn, nextConn, connSem, wg>>
    /\ UNCHANGED <<connVars, execVars>>

\* a variant of the loop that returns when AuthorizeConnection fails
RejectAuthReturn(c) ==
    /\ UNCHANGED <<pureVars, runVars>>
    /\ Alive /\ acceptPc = "conn" /\ acceptConn = c
    /\ \E u \in Uids \cup {NoCreds} :
          /\ AuthorizeConnection(u, AllowedUID).err
          /\ uid' = [uid EXCEPT ![c] = u]
    /\ closed' = [closed EXCEPT ![c] = TRUE]
    /\ acceptPc' = "stopped" /\ acceptConn' = 0
    /\ UNCHANGED <<cfgMaxConnections, binaryPath, mainPc, rootCancelled,
                   restartRequested, listener, nextConn, connSem, wg>>
    /\ UNCHANGED <<pc, req, kind, upd, out, peerGone>>
    /\ UNCHANGED execVars

\* AuthorizeConnection fails: the error record is written only when creds
\* is non-nil; the connection is closed and the loop continues
RejectAuth(c) ==
    /\ UNCHANGED <<pureVars, runVars>>
    /\ Alive /\ acceptPc = "conn" /\ acceptConn = c
    /\ \E u \in Uids \cup {NoCreds} :
          LET a == AuthorizeConnection(u, AllowedUID) IN
          /\ a.err
          /\ uid' = [uid EXCEPT ![c] = u]
          /\ IF a.creds
             THEN Write(c, ErrorResponse("unauthorized: connection rejected"))
             ELSE out' = out
    /\ closed' = [closed EXCEPT ![c] = TRUE]
    /\ acceptPc' = "accept" /\ acceptConn' = 0
    /\ UNCHANGED <<cfgMaxConnections, binaryPath, mainPc, rootCancelled,
                   restartRequested, listener, nextConn, connSem, wg>>
    /\ UNCHANGED <<pc, req, kind, upd, peerGone>>
    /\ UNCHANGED execVars

\* a variant of the select that always takes the first branch
AlwaysAcquire == TRUE

\* the select of acceptLoop takes a slot: s.connSem <- struct{}{}
TryAcquire == connSem < New(cfgMaxConnections)

\* authorized and a slot is free: the handler goroutine starts
Admit(c) ==
    /\ UNCHANGED <<pureVars, runVars>>
    /\ Alive /\ acceptPc = "conn" /\ acceptConn = c
    /\ \E u \in Uids \cup {NoCreds} :
          /\ ~AuthorizeConnection(u, AllowedUID).err
          /\ uid' = [uid EXCEPT ![c] = u]
    /\ TryAcquire
    /\ connSem' = connSem + 1
    /\ wg' = wg + 1
    /\ pc' = [pc EXCEPT ![c] = "parse"]
    /\ acceptPc' = "accept" /\ acceptConn' = 0
    /\ UNCHANGED <<cfgMaxConnections, binaryPath, mainPc, rootCancelled,
                   restartRequested, listener, nextConn>>
    /\ UNCHANGED <<req, kind, upd, out, closed, peerGone>>
    /\ UNCHANGED execVars

\* a variant of the default branch that closes without a record
RejectCapacitySilent(c) ==
    /\ UNCHANGED <<pureVars, runVars>>
    /\ Alive /\ acceptPc = "conn" /\ acceptConn = c
    /\ \E u \in Uids \cup {NoCreds} :
          /\ ~AuthorizeConnection(u, AllowedUID).err
          /\ uid' = [uid EXCEPT ![c] = u]
    /\ ~TryAcquire
    /\ closed' = [closed EXCEPT ![c] = TRUE]
    /\ acceptPc' = "accept" /\ acceptConn' = 0
    /\ UNCHANGED <<cfgMaxConnections, binaryPath, mainPc, rootCancelled,
                   restartRequested, listener, nextConn, connSem, wg>>
    /\ UNCHANGED <<pc, req, kind, upd, out, peerGone>>
    /\ UNCHANGED execVars

\* authorized and the gate is full: the default branch of the select
RejectCapacity(c) ==
    /\ UNCHANGED <<pureVars, runVars>>
    /\ Alive /\ acceptPc = "conn" /\ acceptConn = c
    /\ \E u \in Uids \cup {NoCreds} :
          /\ ~AuthorizeConnection(u, AllowedUID).err
          /\ uid' = [uid EXCEPT ![c] = u]
    /\ ~TryAcquire
    /\ Write(c, ErrorResponse("server at maximum capacity"))
    /\ closed' = [closed EXCEPT ![c] = TRUE]
    /\ acceptPc' = "accept" /\ acceptConn' = 0
    /\ UNCHANGED <<cfgMaxConnections, binaryPath, mainPc, rootCancelled,
                   restartRequested, listener, nextConn, connSem, wg>>
    /\ UNCHANGED <<pc, req, kind, upd, peerGone>>
    /\ UNCHANGED execVars

(***************************************************************************)
(* handleConnection: parse and dispatch                                    *)
(***************************************************************************)
\* what ParseRequest makes of the streams the peers send
Outcomes ==
    {[ok |-> ParseRequest(s).ok, err |-> ParseRequest(s).err,
      req |-> RequestOf(s)] : s \in MainStreams}

Parsed(c, o) == req' = [req EXCEPT ![c] = o.req]

\* ParseRequest fails: one Error record, return
ParseFail(c) ==
    /\ UNCHANGED <<pureVars, runVars>>
    /\ Alive /\ pc[c] = "parse"
    /\ \E o \in Outcomes :
          /\ ~o.ok
          /\ Parsed(c, o)
          /\ kind' = [kind EXCEPT ![c] = o.err]
          /\ UNCHANGED upd
          /\ Write(c, ErrorResponse(o.err))
    /\ pc' = [pc EXCEPT ![c] = "ret"]
    /\ UNCHANGED <<uid, closed, peerGone>>
    /\ UNCHANGED <<srvVars, execVars>>

\* req.Action # "": handleAction
IsAction(o, a) == o.ok /\ o.req.Action = a

\* handleVersion
HandleVersion(c) ==
    /\ UNCHANGED <<pureVars, runVars>>
    /\ Alive /\ pc[c] = "parse"
    /\ \E o \in Outcomes : IsAction(o, "version") /\ Parsed(c, o)
    /\ kind' = [kind EXCEPT ![c] = "version"]
    /\ UNCHANGED upd
    /\ Write(c, VersionResponse)
    /\ pc' = [pc EXCEPT ![c] = "ret"]
    /\ UNCHANGED <<uid, closed, peerGone>>
    /\ UNCHANGED <<srvVars, execVars>>

\* handleCheckUpdate with Updater.CheckUpdate: discovery and comparison only
HandleCheckUpdate(c) ==
    /\ UNCHANGED <<pureVars, runVars>>
    /\ Alive /\ pc[c] = "parse"
    /\ \E o \in Outcomes : IsAction(o, "check-update") /\ Parsed(c, o)
    /\ kind' = [kind EXCEPT ![c] = "check-update"]
    /\ \E res \in {"failed", "current", "available"} :
          /\ ~binaryPath => res = "failed"
          /\ upd' = IF binaryPath THEN [upd EXCEPT ![c].found = res] ELSE upd
          /\ Write(c, UpdateResponse(res))
    /\ pc' = [pc EXCEPT ![c] = "ret"]
    /\ UNCHANGED <<uid, closed, peerGone>>
    /\ UNCHANGED <<srvVars, execVars>>

\* handleUpdate up to the call of PerformUpdate
HandleUpdate(c) ==
    /\ UNCHANGED <<pureVars, runVars>>
    /\ Alive /\ pc[c] = "parse"
    /\ \E o \in Outcomes : IsAction(o, "update") /\ Parsed(c, o)
    /\ kind' = [kind EXCEPT ![c] = "update"]
    /\ UNCHANGED upd
    /\ IF ~binaryPath
       THEN /\ Write(c, UpdateResponse("failed"))
            /\ pc' = [pc EXCEPT ![c] = "ret"]
       ELSE /\ out' = out
            /\ pc' = [pc EXCEPT ![c] = "upd_discover"]
    /\ UNCHANGED <<uid, closed, peerGone>>
    /\ UNCHANGED <<srvVars, execVars>>

\* req.Action = "": the command path up to Executor.Run
HandleCommand(c) ==
    /\ UNCHANGED <<pureVars, runVars>>
    /\ Alive /\ pc[c] = "parse"
    /\ \E o \in Outcomes : IsAction(o, "") /\ Parsed(c, o)
    /\ kind' = [kind EXCEPT ![c] = "command"]
    /\ UNCHANGED upd
    /\ pc' = [pc EXCEPT ![c] = "run"]
    /\ UNCHANGED <<uid, out, closed, peerGone>>
    /\ UNCHANGED <<srvVars, execVars>>

(***************************************************************************)
(* Updater.PerformUpdate, with the progress callback of handleUpdate       *)
(***************************************************************************)
\* a variant of PerformUpdate that goes on whatever the comparison says
UpdDiscoverNoCompare(c) ==
    /\ UNCHANGED <<pureVars, runVars>>
    /\ Alive /\ pc[c] = "upd_discover"
    /\ \E res \in {"failed", "current", "newer"} :
          /\ upd' = [upd EXCEPT ![c].found = res]
          /\ IF res # "failed"
             THEN /\ pc' = [pc EXCEPT ![c] = "upd_ctx"]
                  /\ out' = out
             ELSE /\ Write(c, UpdateResponse(res))
                  /\ pc' = [pc EXCEPT ![c] = "ret"]
    /\ UNCHANGED <<uid, req, kind, closed, peerGone>>
    /\ UNCHANGED <<srvVars, execVars>>

\* GetLatestRelease and the version comparison
UpdDiscover(c) ==
    /\ UNCHANGED <<pureVars, runVars>>
    /\ Alive /\ pc[c] = "upd_discover"
    /\ \E res \in {"failed", "current", "newer"} :
          /\ upd' = [upd EXCEPT ![c].found = res]
          /\ IF res = "newer"
             THEN /\ pc' = [pc EXCEPT ![c] = "upd_ctx"]
                  /\ out' = out
             ELSE /\ Write(c, UpdateResponse(res))
                  /\ pc' = [pc EXCEPT ![c] = "ret"]
    /\ UNCHANGED <<uid, req, kind, closed, peerGone>>
    /\ UNCHANGED <<srvVars, execVars>>

\* ctx.Err() before the download: the result is returned without a call of
\* onProgress
UpdCancelled(c) ==
    /\ UNCHANGED <<pureVars, runVars>>
    /\ Alive /\ pc[c] = "upd_ctx"
    /\ rootCancelled
    /\ pc' = [pc EXCEPT ![c] = "ret"]
    /\ UNCHANGED <<uid, req, kind, upd, out, closed, peerGone>>
    /\ UNCHANGED <<srvVars, execVars>>

\* a variant of PerformUpdate that does not announce the download
UpdFindAssetSilent(c) ==
    /\ UNCHANGED <<pureVars, runVars>>
    /\ Alive /\ pc[c] = "upd_ctx"
    /\ ~rootCancelled
    /\ \E found \in BOOLEAN :
          IF found
          THEN /\ out' = out
               /\ pc' = [pc EXCEPT ![c] = "upd_download"]
          ELSE /\ Write(c, UpdateResponse("failed"))
               /\ pc' = [pc EXCEPT ![c] = "ret"]
    /\ UNCHANGED <<uid, req, kind, upd, closed, peerGone>>
    /\ UNCHANGED <<srvVars, execVars>>

\* FindAssetForPlatform, then the "downloading" progress record
UpdFindAsset(c) ==
    /\ UNCHANGED <<pureVars, runVars>>
    /\ Alive /\ pc[c] = "upd_ctx"
    /\ ~rootCancelled
    /\ \E found \in BOOLEAN :
          IF found
          THEN /\ Write(c, UpdateResponse("downloading"))
               /\ pc' = [pc EXCEPT ![c] = "upd_download"]
          ELSE /\ Write(c, UpdateResponse("failed"))
               /\ pc' = [pc EXCEPT ![c] = "ret"]
    /\ UNCHANGED <<uid, req, kind, upd, closed, peerGone>>
    /\ UNCHANGED <<srvVars, execVars>>

\* DownloadAndExtract
UpdDownload(c) ==
    /\ UNCHANGED <<pureVars, runVars>>
    /\ Alive /\ pc[c] = "upd_download"
    /\ upd' = [upd EXCEPT ![c].downloaded = TRUE]
    /\ \E ok \in BOOLEAN :
          IF ok
          THEN /\ out' = out
               /\ pc' = [pc EXCEPT ![c] = "upd_replace"]
          ELSE /\ Write(c, UpdateResponse("failed"))
               /\ pc' = [pc EXCEPT ![c] = "ret"]
    /\ UNCHANGED <<uid, req, kind, closed, peerGone>>
    /\ UNCHANGED <<srvVars, execVars>>

\* a variant in which handleUpdate goes on after a failed PerformUpdate
UpdReplaceNoReturn(c) ==
    /\ UNCHANGED <<pureVars, runVars>>
    /\ Alive /\ pc[c] = "upd_replace"
    /\ \E ok \in BOOLEAN :
          Write(c, UpdateResponse(IF ok THEN "applied" ELSE "failed"))
    /\ pc' = [pc EXCEPT ![c] = "upd_restarting"]
    /\ UNCHANGED <<uid, req, kind, upd, closed, peerGone>>
    /\ UNCHANGED <<srvVars, execVars>>

\* AtomicReplace, then the "applied" progress record
UpdReplace(c) ==
    /\ UNCHANGED <<pureVars, runVars>>
    /\ Alive /\ pc[c] = "upd_replace"
    /\ \E ok \in BOOLEAN :
          /\ upd' = [upd EXCEPT ![c].replaced = ok]
          /\ IF ok
             THEN /\ Write(c, UpdateResponse("applied"))
                  /\ pc' = [pc EXCEPT ![c] = "upd_restarting"]
             ELSE /\ Write(c, UpdateResponse("failed"))
                  /\ pc' = [pc EXCEPT ![c] = "ret"]
    /\ UNCHANGED <<uid, req, kind, closed, peerGone>>
    /\ UNCHANGED <<srvVars, execVars>>

\* handleUpdate after a successful PerformUpdate: the "restarting" record
UpdRestarting(c) ==
    /\ UNCHANGED <<pureVars, runVars>>
    /\ Alive /\ pc[c] = "upd_restarting"
    /\ Write(c, UpdateResponse("restarting"))
    /\ pc' = [pc EXCEPT ![c] = "upd_sleep"]
    /\ UNCHANGED <<uid, req, kind, upd, closed, peerGone>>
    /\ UNCHANGED <<srvVars, execVars>>

\* after restartDelay: srv.RequestRestart()
RequestRestart(c) ==
    /\ UNCHANGED <<pureVars, runVars>>
    /\ Alive /\ pc[c] = "upd_sleep"
    /\ restartRequested' = TRUE
    /\ pc' = [pc EXCEPT ![c] = "ret"]
    /\ UNCHANGED <<cfgMaxConnections, binaryPath, mainPc, rootCancelled,
                   listener, acceptPc, acceptConn, nextConn, connSem, wg>>
    /\ UNCHANGED <<uid, req, kind, upd, out, closed, peerGone>>
    /\ UNCHANGED execVars

(***************************************************************************)
(* handleConnection: the command path, with Executor.Run                   *)
(***************************************************************************)
\* a variant of execCtx that does not derive from the root context
CtxDoneOwnOnly(c) == execCancelled[c]

\* a variant of execCtx without the deadline of max-exec-timeout
CtxDoneNoDeadline(c) == rootCancelled \/ execCancelled[c]

\* execCtx is done: it derives from the root context, has its own cancel
\* and, when max-exec-timeout is positive, a deadline
CtxDone(c) == rootCancelled \/ execCancelled[c] \/ timedOut[c]

\* the timer of context.WithTimeout(execCtx, maxExecTimeout) fires: the
\* handler made it before Run, and its deferred timeoutCancel stops it
\* when the handler returns
ExecTimeout(c) ==
    /\ Alive /\ pc[c] \in {"run", "wg_wait", "cmd_wait", "term"}
    /\ maxExecTimeout > 0
    /\ ~timedOut[c]
    /\ timedOut' = [timedOut EXCEPT ![c] = TRUE]
    /\ UNCHANGED <<maxExecTimeout, hasCallback, blocked, cancelVars, writeMu>>
    /\ UNCHANGED <<srvVars, connVars, execVars, pureVars>>

\* a variant of the writeResponse closure whose cancel is the one of a
\* scope shared by every handler
WriteResponseCancelAll(c, r) ==
    /\ Write(c, r)
    /\ execCancelled' = IF peerGone[c]
                        THEN [d \in Conns |-> TRUE]
                        ELSE execCancelled

\* a variant of the writeResponse closure that ignores the error of a write
WriteResponseNoCancel(c, r) ==
    /\ Write(c, r)
    /\ UNCHANGED execCancelled

\* the writeResponse closure of handleConnection, from the write to the
\* deferred writeMu.Unlock(): a failed write calls execCancel().  The step
\* is taken by the holder of writeMu, or takes writeMu with it when it is
\* free.
WriteResponse(c, r) ==
    /\ Write(c, r)
    /\ execCancelled' = IF peerGone[c]
                        THEN [execCancelled EXCEPT ![c] = TRUE]
                        ELSE execCancelled

\* cmd.Start fails (a bad cwd, or a context that is already done): Run
\* returns -1 and the error
RunStartFail(c) ==
    /\ UNCHANGED <<pureVars, runVars>>
    /\ Alive /\ pc[c] = "run"
    /\ runResult' = [runResult EXCEPT ![c] = [code |-> -1, err |-> "start failed"]]
    /\ pc' = [pc EXCEPT ![c] = "term"]
    /\ UNCHANGED <<uid, req, kind, upd, out, closed, peerGone>>
    /\ UNCHANGED <<execCancelled, spawned, child, status, produced, pipe,
                   drainer, buf, termSent>>
    /\ UNCHANGED srvVars

\* cmd.Start succeeds: the child runs in its own process group and the two
\* readPipe goroutines start; the one of a stream without a callback
\* returns at once and never reads its pipe
RunStart(c) ==
    /\ UNCHANGED <<pureVars, runVars>>
    /\ Alive /\ pc[c] = "run"
    /\ ~CtxDone(c)
    /\ spawned' = [spawned EXCEPT ![c] = TRUE]
    /\ child' = [child EXCEPT ![c] = "running"]
    /\ drainer' = [drainer EXCEPT ![c] =
                       [s \in Streams |-> IF hasCallback[s] THEN "read" ELSE "done"]]
    /\ pc' = [pc EXCEPT ![c] = "wg_wait"]
    /\ UNCHANGED <<uid, req, kind, upd, out, closed, peerGone>>
    /\ UNCHANGED <<execCancelled, status, produced, pipe, buf, termSent,
                   runResult>>
    /\ UNCHANGED srvVars

\* the child exits on its own; its ends of the pipes close
ChildExit(c) ==
    /\ UNCHANGED <<pureVars, runVars>>
    /\ Alive /\ child[c] = "running"
    /\ blocked[c] = ""
    /\ child' = [child EXCEPT ![c] = "exited"]
    /\ UNCHANGED <<execCancelled, spawned, status, produced, pipe, drainer, buf,
                   termSent, runResult>>
    /\ UNCHANGED <<srvVars, connVars>>

\* the child dies of the SIGTERM sent to its group, or of the SIGKILL that
\* exec sends it when WaitDelay has passed since
ChildTerminated(c) ==
    /\ UNCHANGED <<pureVars, maxExecTimeout, timedOut, hasCallback, cancelVars, writeMu>>
    /\ Alive /\ child[c] = "running"
    /\ termSent[c]
    /\ child' = [child EXCEPT ![c] = "killed"]
    /\ blocked' = [blocked EXCEPT ![c] = ""]
    /\ UNCHANGED <<execCancelled, spawned, status, produced, pipe, drainer, buf,
                   termSent, runResult>>
    /\ UNCHANGED <<srvVars, connVars>>

\* exec's context watcher: the context is done before Wait has the result,
\* cmd.Cancel sends SIGTERM to the process group
CancelSignal(c) ==
    /\ UNCHANGED <<pureVars, runVars>>
    /\ Alive /\ pc[c] \in {"wg_wait", "cmd_wait"}
    /\ CtxDone(c)
    /\ ~termSent[c]
    /\ termSent' = [termSent EXCEPT ![c] = TRUE]
    /\ UNCHANGED <<execCancelled, spawned, child, status, produced, pipe,
                   drainer, buf, runResult>>
    /\ UNCHANGED <<srvVars, connVars>>

\* the wait statuses cmd.Wait() can find: 0 or 1 for a child that exited,
\* -1 (ExitCode() of a signalled process) for one that was killed
WaitStatuses(c) == IF child[c] = "killed" THEN {-1} ELSE {0, 1}

\* a variant of Run that reports every failed wait as an error
WaitResultStrict(st, cancelSent) ==
    IF st # 0 \/ cancelSent THEN [code |-> -1, err |-> "command failed"]
    ELSE [code |-> 0, err |-> ""]

\* a variant of Run that returns the wait status and never an error
WaitResultStatusOnly(st, cancelSent) == [code |-> st, err |-> ""]

\* what Run makes of cmd.Wait(): nil is exit code 0, an ExitError is its
\* exit code, any other error (the context's, after Cancel) is -1 and the
\* error
WaitResult(st, cancelSent) ==
    IF st # 0 THEN [code |-> st, err |-> ""]
    ELSE IF cancelSent THEN [code |-> -1, err |-> "command failed"]
    ELSE [code |-> 0, err |-> ""]

\* cmd.Wait() reaps the child and Run returns; the context watcher of the
\* command ends with it
Reaped(c) ==
    /\ child[c] \in {"exited", "killed"}
    /\ child' = [child EXCEPT ![c] = "reaped"]
    /\ \E st \in WaitStatuses(c) :
          /\ status' = [status EXCEPT ![c] = st]
          /\ runResult' = [runResult EXCEPT ![c] = WaitResult(st, termSent[c])]
    /\ termSent' = [termSent EXCEPT ![c] = FALSE]

\* handleConnection after Run: Error on an infrastructure error, else Exit
TerminalResponse(res) ==
    IF res.err # "" THEN ErrorResponse(res.err) ELSE ExitResponse(res.code)

WriteTerminal(c) ==
    /\ UNCHANGED <<pureVars, maxExecTimeout, timedOut, hasCallback, blocked, cancelVars>>
    /\ Alive /\ pc[c] = "term"
    /\ writeMu[c] \in {"", "main"}
    /\ writeMu' = [writeMu EXCEPT ![c] = ""]
    /\ WriteResponse(c, TerminalResponse(runResult[c]))
    /\ pc' = [pc EXCEPT ![c] = "ret"]
    /\ UNCHANGED <<uid, req, kind, upd, closed, peerGone>>
    /\ UNCHANGED <<spawned, child, status, produced, pipe, drainer, buf, termSent,
                   runResult>>
    /\ UNCHANGED srvVars

(***************************************************************************)
(* Executor.Run between Start and Wait, as the server specification sees   *)
(* it: a chunk goes from the child through its pipe and drainer to the     *)
(* connection in one step, and the two drainers end with the child.        *)
(***************************************************************************)
\* readPipe: a chunk of the child becomes a Stdout or Stderr record
StreamChunk(c, s) ==
    /\ UNCHANGED <<pureVars, runVars>>
    /\ Alive /\ pc[c] = "wg_wait" /\ child[c] = "running"
    /\ produced[c]["stdout"] + produced[c]["stderr"] < MaxChunks
    /\ produced' = [produced EXCEPT ![c][s] = @ + 1]
    /\ WriteResponse(c, IF s = "stdout" THEN StdoutResponse(<<produced'[c][s]>>)
                                         ELSE StderrResponse(<<produced'[c][s]>>))
    /\ UNCHANGED <<uid, pc, req, kind, upd, closed, peerGone>>
    /\ UNCHANGED <<spawned, child, status, pipe, drainer, buf, termSent, runResult>>
    /\ UNCHANGED srvVars

\* both drainers read EOF, wg.Wait() returns, cmd.Wait() reaps the child,
\* Run returns and handleConnection writes the Exit or Error record
RunReturn(c) ==
    /\ UNCHANGED <<pureVars, runVars>>
    /\ Alive /\ pc[c] = "wg_wait"
    /\ Reaped(c)
    /\ drainer' = [drainer EXCEPT ![c] = [s \in Streams |-> "done"]]
    /\ WriteResponse(c, TerminalResponse(runResult'[c]))
    /\ pc' = [pc EXCEPT ![c] = "ret"]
    /\ UNCHANGED <<uid, req, kind, upd, closed, peerGone>>
    /\ UNCHANGED <<spawned, produced, pipe, buf>>
    /\ UNCHANGED srvVars

(***************************************************************************)
(* Executor.Run between Start and Wait, step by step: the child writes to  *)
(* its pipes, each readPipe goroutine reads a chunk and calls its callback,*)
(* Run waits for both and then for the child.                              *)
(***************************************************************************)
\* the child begins a write to a pipe that is full: it sleeps in the
\* write until the pipe is read
ChildBlock(c, s) ==
    /\ Alive /\ child[c] = "running"
    /\ blocked[c] = ""
    /\ produced[c][s] < MaxBytes
    /\ Len(pipe[c][s]) >= pipeCapacity
    /\ blocked' = [blocked EXCEPT ![c] = s]
    /\ UNCHANGED <<maxExecTimeout, timedOut, hasCallback, cancelVars, writeMu>>
    /\ UNCHANGED <<srvVars, connVars, execVars, pureVars>>

\* the child writes a chunk to stdout or stderr: the pipe has room for it
ChildWrite(c, s) ==
    /\ UNCHANGED <<pureVars, maxExecTimeout, timedOut, hasCallback, cancelVars, writeMu>>
    /\ Alive /\ child[c] = "running"
    /\ blocked[c] \in {"", s}
    /\ Len(pipe[c][s]) < pipeCapacity
    /\ blocked' = [blocked EXCEPT ![c] = ""]
    /\ produced[c][s] < MaxBytes
    /\ produced' = [produced EXCEPT ![c][s] = @ + 1]
    /\ pipe' = [pipe EXCEPT ![c][s] = Append(@, produced'[c][s])]
    /\ UNCHANGED <<execCancelled, spawned, child, status, drainer, buf, termSent,
                   runResult>>
    /\ UNCHANGED <<srvVars, connVars>>

\* a variant of readPipe that passes only the first byte of what it read
BufFirstByte(p) == SubSeq(p, 1, 1)

\* readPipe: buf[:n] after n, err := pipe.Read(buf) on a pipe that holds p:
\* what is there, up to the size of the buffer
BufN(p) == SubSeq(p, 1, Min(Len(p), bufferSize))

\* readPipe: pipe.Read returns a chunk
DrainRead(c, s) ==
    /\ UNCHANGED <<pureVars, runVars>>
    /\ Alive /\ drainer[c][s] = "read"
    /\ pipe[c][s] # <<>>
    /\ buf' = [buf EXCEPT ![c][s] = BufN(pipe[c][s])]
    /\ pipe' = [pipe EXCEPT ![c][s] =
                    SubSeq(@, Min(Len(@), bufferSize) + 1, Len(@))]
    /\ drainer' = [drainer EXCEPT ![c][s] = "cb"]
    /\ UNCHANGED <<execCancelled, spawned, child, status, produced, termSent,
                   runResult>>
    /\ UNCHANGED <<srvVars, connVars>>

\* readPipe: pipe.Read returns EOF, the goroutine ends (wg.Done).  The
\* pipe is at its end when it is empty and no process has its write end
\* open: the child has ended, and so has what it forked
DrainEOF(c, s) ==
    /\ UNCHANGED <<pureVars, runVars>>
    /\ Alive /\ drainer[c][s] = "read"
    /\ pipe[c][s] = <<>>
    /\ child[c] # "running"
    /\ descendant[c] = "none"
    /\ drainer' = [drainer EXCEPT ![c][s] = "done"]
    /\ UNCHANGED <<execCancelled, spawned, child, status, produced, pipe, buf,
                   termSent, runResult>>
    /\ UNCHANGED <<srvVars, connVars>>

\* a variant of the writeResponse closure without its deferred Unlock
DrainCallbackNoUnlock(c, s) ==
    /\ UNCHANGED <<pureVars, maxExecTimeout, timedOut, hasCallback, blocked, cancelVars>>
    /\ Alive /\ drainer[c][s] = "cb"
    /\ writeMu[c] \in {"", s}
    /\ writeMu' = [writeMu EXCEPT ![c] = s]
    /\ WriteResponse(c, IF s = "stdout" THEN StdoutResponse(buf[c][s])
                                         ELSE StderrResponse(buf[c][s]))
    /\ buf' = [buf EXCEPT ![c][s] = <<>>]
    /\ drainer' = [drainer EXCEPT ![c][s] = "read"]
    /\ UNCHANGED <<uid, pc, req, kind, upd, closed, peerGone>>
    /\ UNCHANGED <<spawned, child, status, produced, pipe, termSent, runResult>>
    /\ UNCHANGED srvVars

\* readPipe: the callback writes the chunk as a Stdout or Stderr record
DrainCallback(c, s) ==
    /\ UNCHANGED <<pureVars, maxExecTimeout, timedOut, hasCallback, blocked, cancelVars>>
    /\ Alive /\ drainer[c][s] = "cb"
    /\ writeMu[c] \in {"", s}
    /\ writeMu' = [writeMu EXCEPT ![c] = ""]
    /\ WriteResponse(c, IF s = "stdout" THEN StdoutResponse(buf[c][s])
                                         ELSE StderrResponse(buf[c][s]))
    /\ buf' = [buf EXCEPT ![c][s] = <<>>]
    /\ drainer' = [drainer EXCEPT ![c][s] = "read"]
    /\ UNCHANGED <<uid, pc, req, kind, upd, closed, peerGone>>
    /\ UNCHANGED <<spawned, child, status, produced, pipe, termSent, runResult>>
    /\ UNCHANGED srvVars

\* a variant of Run that does not wait for the drainers
DrainersNotAwaited(c) == TRUE

\* Run: wg.Wait() returns once both drainers are done
DrainersDone(c) == \A s \in Streams : drainer[c][s] = "done"

WgWait(c) ==
    /\ UNCHANGED <<pureVars, runVars>>
    /\ Alive /\ pc[c] = "wg_wait"
    /\ DrainersDone(c)
    /\ pc' = [pc EXCEPT ![c] = "cmd_wait"]
    /\ UNCHANGED <<uid, req, kind, upd, out, closed, peerGone>>
    /\ UNCHANGED <<srvVars, execVars>>

\* Run: cmd.Wait() reaps the exited child
Reap(c) ==
    /\ UNCHANGED <<pureVars, runVars>>
    /\ Alive /\ pc[c] = "cmd_wait"
    /\ Reaped(c)
    /\ pc' = [pc EXCEPT ![c] = "term"]
    /\ UNCHANGED <<uid, req, kind, upd, out, closed, peerGone>>
    /\ UNCHANGED <<execCancelled, spawned, produced, pipe, drainer, buf>>
    /\ UNCHANGED srvVars

(***************************************************************************)
(* handleConnection returns; the goroutine of acceptLoop ends              *)
(***************************************************************************)
\* a variant of the goroutine without its deferred <-s.connSem
HandlerReturnKeepsSlot(c) ==
    /\ UNCHANGED <<pureVars, runVars>>
    /\ Alive /\ pc[c] = "ret"
    /\ closed' = [closed EXCEPT ![c] = TRUE]
    /\ wg' = wg - 1
    /\ connSem' = connSem
    /\ pc' = [pc EXCEPT ![c] = "done"]
    /\ req' = [req EXCEPT ![c] = NoRequest]
    /\ kind' = [kind EXCEPT ![c] = "none"]
    /\ upd' = [upd EXCEPT ![c] = NoUpdate]
    /\ out' = [out EXCEPT ![c] = <<>>]
    /\ peerGone' = [peerGone EXCEPT ![c] = FALSE]
    /\ execCancelled' = [execCancelled EXCEPT ![c] = FALSE]
    /\ spawned' = [spawned EXCEPT ![c] = FALSE]
    /\ child' = [child EXCEPT ![c] = "none"]
    /\ status' = [status EXCEPT ![c] = 0]
    /\ produced' = [produced EXCEPT ![c] = [s \in Streams |-> 0]]
    /\ drainer' = [drainer EXCEPT ![c] = [s \in Streams |-> "idle"]]
    /\ buf' = [buf EXCEPT ![c] = [s \in Streams |-> <<>>]]
    /\ termSent' = [termSent EXCEPT ![c] = FALSE]
    /\ runResult' = [runResult EXCEPT ![c] = NoResult]
    /\ UNCHANGED <<cfgMaxConnections, binaryPath, mainPc, rootCancelled,
                   restartRequested, listener, acceptPc, acceptConn, nextConn>>
    /\ UNCHANGED <<uid, pipe>>

\* handleConnection returns: its deferred calls close the connection (and
\* call execCancel() on the command path), then the deferred calls of the
\* goroutine run s.wg.Done() and <-s.connSem.  Nothing of the handler
\* remains.
HandlerReturn(c) ==
    /\ UNCHANGED <<pureVars, runVars>>
    /\ Alive /\ pc[c] = "ret"
    /\ closed' = [closed EXCEPT ![c] = TRUE]
    /\ wg' = wg - 1
    /\ connSem' = connSem - 1
    /\ pc' = [pc EXCEPT ![c] = "done"]
    /\ req' = [req EXCEPT ![c] = NoRequest]
    /\ kind' = [kind EXCEPT ![c] = "none"]
    /\ upd' = [upd EXCEPT ![c] = NoUpdate]
    /\ out' = [out EXCEPT ![c] = <<>>]
    /\ peerGone' = [peerGone EXCEPT ![c] = FALSE]
    /\ execCancelled' = [execCancelled EXCEPT ![c] = FALSE]
    /\ spawned' = [spawned EXCEPT ![c] = FALSE]
    /\ child' = [child EXCEPT ![c] = "none"]
    /\ status' = [status EXCEPT ![c] = 0]
    /\ produced' = [produced EXCEPT ![c] = [s \in Streams |-> 0]]
    /\ drainer' = [drainer EXCEPT ![c] = [s \in Streams |-> "idle"]]
    /\ buf' = [buf EXCEPT ![c] = [s \in Streams |-> <<>>]]
    /\ termSent' = [termSent EXCEPT ![c] = FALSE]
    /\ runResult' = [runResult EXCEPT ![c] = NoResult]
    /\ UNCHANGED <<cfgMaxConnections, binaryPath, mainPc, rootCancelled,
                   restartRequested, listener, acceptPc, acceptConn, nextConn>>
    /\ UNCHANGED <<uid, pipe>>

\* the peer closes its end while its command runs: the handler sees it as a
\* failed write (the other paths ignore the error of their writes)
PeerClose(c) ==
    /\ UNCHANGED <<pureVars, runVars>>
    /\ Alive /\ pc[c] \in {"run", "wg_wait", "cmd_wait", "term"}
    /\ ~peerGone[c]
    /\ peerGone' = [peerGone EXCEPT ![c] = TRUE]
    /\ UNCHANGED <<uid, pc, req, kind, upd, out, closed>>
    /\ UNCHANGED <<srvVars, execVars>>

(***************************************************************************)
(* main and Server.Shutdown                                                *)
(***************************************************************************)
\* Shutdown, called by main as soon as the root context is done:
\* s.listener.Close(); an accept loop blocked in AcceptUnix gets
\* net.ErrClosed and returns
ShutdownClose ==
    /\ listener' = "closed"
    /\ acceptPc' = IF acceptPc = "accept" THEN "stopped" ELSE acceptPc
    /\ mainPc' = "draining"

\* SIGINT or SIGTERM: the root context is done, main leaves its select and
\* calls Shutdown
Signal ==
    /\ UNCHANGED <<pureVars, runVars>>
    /\ mainPc = "running"
    /\ rootCancelled' = TRUE
    /\ ShutdownClose
    /\ UNCHANGED <<cfgMaxConnections, binaryPath, restartRequested,
                   acceptConn, nextConn, connSem, wg>>
    /\ UNCHANGED <<connVars, execVars>>

\* main receives from RestartChan, calls stop() and then Shutdown
RestartReceived ==
    /\ UNCHANGED <<pureVars, runVars>>
    /\ mainPc = "running"
    /\ restartRequested
    /\ rootCancelled' = TRUE
    /\ ShutdownClose
    /\ UNCHANGED <<cfgMaxConnections, binaryPath, restartRequested,
                   acceptConn, nextConn, connSem, wg>>
    /\ UNCHANGED <<connVars, execVars>>

\* a variant of Shutdown that does not wait for the handlers
ShutdownNoWait ==
    /\ UNCHANGED <<pureVars, runVars>>
    /\ mainPc = "draining"
    /\ mainPc' = "drained"
    /\ UNCHANGED <<cfgMaxConnections, binaryPath, rootCancelled, restartRequested,
                   listener, acceptPc, acceptConn, nextConn, connSem, wg>>
    /\ UNCHANGED <<connVars, execVars>>

\* Shutdown: s.wg.Wait() returned and the select took <-done; Shutdown goes
\* on to remove the socket file and to return to main
ShutdownDrained ==
    /\ UNCHANGED <<pureVars, runVars>>
    /\ mainPc = "draining"
    /\ wg = 0
    /\ mainPc' = "drained"
    /\ UNCHANGED <<cfgMaxConnections, binaryPath, rootCancelled, restartRequested,
                   listener, acceptPc, acceptConn, nextConn, connSem, wg>>
    /\ UNCHANGED <<connVars, execVars>>

\* main returns or calls os.Exit: the process ends, and with it the accept
\* loop and every handler that is still running; nothing of them remains
ProcessEnds ==
    /\ acceptPc' = "stopped" /\ acceptConn' = 0
    /\ connSem' = 0 /\ wg' = 0
    /\ pc' = [c \in Conns |-> IF pc[c] \in {"none", "done"} THEN pc[c] ELSE "killed"]
    /\ req' = [c \in Conns |-> NoRequest]
    /\ peerGone' = [c \in Conns |-> FALSE]
    /\ execCancelled' = [c \in Conns |-> FALSE]
    /\ spawned' = [c \in Conns |-> FALSE]
    /\ child' = [c \in Conns |-> "none"]
    /\ status' = [c \in Conns |-> 0]
    /\ produced' = [c \in Conns |-> [s \in Streams |-> 0]]
    /\ pipe' = [c \in Conns |-> [s \in Streams |-> <<>>]]
    /\ drainer' = [c \in Conns |-> [s \in Streams |-> "idle"]]
    /\ buf' = [c \in Conns |-> [s \in Streams |-> <<>>]]
    /\ termSent' = [c \in Conns |-> FALSE]
    /\ runResult' = [c \in Conns |-> NoResult]
    /\ UNCHANGED <<cfgMaxConnections, binaryPath, rootCancelled, restartRequested,
                   listener, nextConn>>
    /\ UNCHANGED <<uid, kind, upd, out, closed>>

\* Shutdown: the 30 s context of main expires first; Shutdown returns, main
\* returns and the process ends with handlers still running
ShutdownTimeout ==
    /\ UNCHANGED <<pureVars, runVars>>
    /\ mainPc = "draining"
    /\ wg > 0
    /\ mainPc' = "timedout"
    /\ ProcessEnds

\* main after a Shutdown that saw the handlers drained: it returns, or
\* calls os.Exit(0) after a restart request
MainReturn ==
    /\ UNCHANGED <<pureVars, runVars>>
    /\ mainPc = "drained"
    /\ mainPc' = "exited"
    /\ ProcessEnds

\* Server.Shutdown returns nil on both branches of its select
ShutdownErr == FALSE

\* a variant of main that exits with 1 after a restart
MainExitOneOnRestart(shutdownErr, restart) ==
    IF shutdownErr \/ restart THEN 1 ELSE 0

\* main after Shutdown: os.Exit(1) on an error of Shutdown, os.Exit(0) after
\* a restart request, else the return from main
MainExit(shutdownErr, restart) ==
    IF shutdownErr THEN 1
    ELSE IF restart THEN 0
    ELSE 0

\* the exit code of the process, -1 while it runs.  main took the restart
\* branch of its select if the request was there when it left the select;
\* either branch may be taken when a signal is there as well.
ExitCodes ==
    IF Alive THEN {-1}
    ELSE {MainExit(ShutdownErr, r) : r \in {restartRequested, FALSE}}

\* the server: chunks go from child to connection in one step
Next ==
    \/ \E c \in Conns :
          \/ Accept(c) \/ RejectAuth(c) \/ Admit(c) \/ RejectCapacity(c)
          \/ ParseFail(c) \/ HandleVersion(c) \/ HandleCheckUpdate(c)
          \/ HandleUpdate(c) \/ HandleCommand(c)
          \/ UpdDiscover(c) \/ UpdCancelled(c) \/ UpdFindAsset(c)
          \/ UpdDownload(c) \/ UpdReplace(c) \/ UpdRestarting(c)
          \/ RequestRestart(c)
          \/ RunStartFail(c) \/ RunStart(c) \/ ChildExit(c)
          \/ ChildTerminated(c) \/ CancelSignal(c) \/ RunReturn(c)
          \/ WriteTerminal(c) \/ HandlerReturn(c)
          \/ PeerClose(c)
          \/ \E s \in Streams : StreamChunk(c, s)
    \/ AcceptLoopExit
    \/ Signal \/ RestartReceived \/ ShutdownDrained \/ ShutdownTimeout
    \/ MainReturn

Spec == Init /\ [][Next]_vars

\* The context watcher that cmd.Start starts for each command runs when it
\* can.  Nothing else is assumed to make progress.
FairWatchers == \A c \in Conns : WF_vars(CancelSignal(c))

\* main leaves its select when a restart request is there, Shutdown
\* returns: its wait ends or its 30 s context expires; and main returns.
FairMain ==
    /\ WF_vars(RestartReceived)
    /\ WF_vars(ShutdownDrained \/ ShutdownTimeout)
    /\ WF_vars(MainReturn)

SpecFair == Spec /\ FairWatchers /\ FairMain

(***************************************************************************)
(* One command connection, step by step.  It starts where HandleCommand    *)
(* leaves the first connection: admitted, its request parsed as a command. *)
(***************************************************************************)
ExecConn == Min(1, NumConns)
ExecStream ==
    [len |-> MaxRequestSize - 1, nl |-> TRUE,
     body |-> [valid |-> TRUE, Command |-> "cmd", Action |-> ""]]

\* the handler of the first connection is about to call Run
InitRun ==
    /\ PureIdle
    /\ cfgMaxConnections = 1
    /\ binaryPath = TRUE
    /\ mainPc = "running"
    /\ rootCancelled = FALSE
    /\ restartRequested = FALSE
    /\ listener = "open"
    /\ acceptPc = "accept"
    /\ acceptConn = 0
    /\ nextConn = ExecConn + 1
    /\ connSem = 1
    /\ wg = 1
    /\ uid = [c \in Conns |-> IF c = ExecConn THEN AllowedUID ELSE "none"]
    /\ pc = [c \in Conns |-> IF c = ExecConn THEN "run" ELSE "none"]
    /\ kind = [c \in Conns |-> IF c = ExecConn THEN "command" ELSE "none"]
    /\ upd = [c \in Conns |-> NoUpdate]
    /\ req = [c \in Conns |-> IF c = ExecConn THEN RequestOf(ExecStream)
                              ELSE NoRequest]
    /\ out = [c \in Conns |-> <<>>]
    /\ closed = [c \in Conns |-> FALSE]
    /\ peerGone \in {f \in [Conns -> BOOLEAN] : \A c \in Conns \ {ExecConn} : ~f[c]}
    /\ execCancelled = [c \in Conns |-> FALSE]
    /\ spawned = [c \in Conns |-> FALSE]
    /\ child = [c \in Conns |-> "none"]
    /\ status = [c \in Conns |-> 0]
    /\ produced = [c \in Conns |-> [s \in Streams |-> 0]]
    /\ pipe = [c \in Conns |-> [s \in Streams |-> <<>>]]
    /\ drainer = [c \in Conns |-> [s \in Streams |-> "idle"]]
    /\ buf = [c \in Conns |-> [s \in Streams |-> <<>>]]
    /\ termSent = [c \in Conns |-> FALSE]
    /\ runResult = [c \in Conns |-> NoResult]

InitExec == InitRun /\ RunIdle

NextExec ==
    \/ RunStartFail(ExecConn) \/ RunStart(ExecConn)
    \/ ChildExit(ExecConn) \/ ChildTerminated(ExecConn)
    \/ CancelSignal(ExecConn)
    \/ \E s \in Streams :
          \/ ChildWrite(ExecConn, s) \/ DrainRead(ExecConn, s)
          \/ DrainEOF(ExecConn, s) \/ DrainCallback(ExecConn, s)
    \/ WgWait(ExecConn) \/ Reap(ExecConn)
    \/ WriteTerminal(ExecConn) \/ HandlerReturn(ExecConn)
    \/ PeerClose(ExecConn)
    \/ Signal \/ ShutdownDrained \/ ShutdownTimeout \/ MainReturn

SpecExec == InitExec /\ [][NextExec]_vars

\* The goroutines of the handler run when they can: Run, its two drainers,
\* the context watcher of the command and the handler itself.  Nothing is
\* assumed of the child, of the peer or of signals.
FairExec ==
    /\ WF_vars(RunStartFail(ExecConn) \/ RunStart(ExecConn))
    /\ WF_vars(CancelSignal(ExecConn))
    /\ \A s \in Streams :
          /\ WF_vars(DrainRead(ExecConn, s))
          /\ WF_vars(DrainEOF(ExecConn, s))
          /\ WF_vars(DrainCallback(ExecConn, s))
    /\ WF_vars(WgWait(ExecConn))
    /\ WF_vars(Reap(ExecConn))
    /\ WF_vars(WriteTerminal(ExecConn))
    /\ WF_vars(HandlerReturn(ExecConn))

SpecExecFair == SpecExec /\ FairExec

(***************************************************************************)
(* protocol.ParseRequest alone, over every stream of the bounded model     *)
(***************************************************************************)
\* the server of the single-function specifications: one configuration,
\* no step taken
ServerIdle ==
    InitServer /\ RunIdle /\ cfgMaxConnections = MaxConnCfg /\ binaryPath

InitParse ==
    /\ ServerIdle
    /\ stream \in AllStreams
    /\ parsed = NotParsed
    /\ reqEnv = {} /\ rest = {} /\ env = <<>>
    /\ fs = NoFiles /\ ar = NoCalls
    /\ UpdIdle /\ sock = NoSocket

\* req, err := protocol.ParseRequest(conn)
Parse ==
    /\ parsed = NotParsed
    /\ parsed' = ParseRequest(stream)
    /\ UNCHANGED <<updVars, sock, fs, ar, stream, reqEnv, rest, env>>
    /\ UNCHANGED <<srvVars, connVars, execVars, runVars>>

NextParse == Parse

SpecParse == InitParse /\ [][NextParse]_vars

(***************************************************************************)
(* handleConnection: the environment merge.  A key is the sequence of its  *)
(* characters; the value of an entry plays no part and is left out.        *)
(***************************************************************************)
NUL == "NUL"

\* strings.ToUpper on the characters the keys of the model use
ToUpper(ch) ==
    CASE ch = "a" -> "A" [] ch = "b" -> "B" [] ch = "d" -> "D"
      [] ch = "e" -> "E" [] ch = "f" -> "F" [] ch = "h" -> "H"
      [] ch = "i" -> "I" [] ch = "l" -> "L" [] ch = "n" -> "N"
      [] ch = "p" -> "P" [] ch = "s" -> "S" [] ch = "t" -> "T"
      [] ch = "v" -> "V" [] ch = "x" -> "X"
      [] OTHER -> ch

Upper(k) == [i \in 1..Len(k) |-> ToUpper(k[i])]

HasPrefix(k, prefix) ==
    Len(k) >= Len(prefix) /\ SubSeq(k, 1, Len(prefix)) = prefix

Contains(k, ch) == \E i \in 1..Len(k) : k[i] = ch

blockedEnvVars ==
    { <<"P","A","T","H">>,
      <<"L","D","_","P","R","E","L","O","A","D">>,
      <<"L","D","_","L","I","B","R","A","R","Y","_","P","A","T","H">>,
      <<"L","D","_","A","U","D","I","T">>,
      <<"L","D","_","D","E","B","U","G">>,
      <<"L","D","_","P","R","O","F","I","L","E">>,
      <<"B","A","S","H","_","E","N","V">>,
      <<"E","N","V">>,
      <<"S","H","E","L","L","O","P","T","S">>,
      <<"B","A","S","H","O","P","T","S">>,
      <<"I","F","S">>,
      <<"C","D","P","A","T","H">>,
      <<"G","L","O","B","I","G","N","O","R","E">> }

blockedEnvPrefixes ==
    { <<"L","D","_">>, <<"B","A","S","H","_","F","U","N","C","_">> }

\* a variant of isBlockedEnvVar that compares the key as it was sent
isBlockedEnvVarExact(key) ==
    \/ key \in blockedEnvVars
    \/ \E prefix \in blockedEnvPrefixes : HasPrefix(key, prefix)

isBlockedEnvVar(key) ==
    LET upper == Upper(key) IN
    \/ upper \in blockedEnvVars
    \/ \E prefix \in blockedEnvPrefixes : HasPrefix(upper, prefix)

\* os.Environ() of the broker: it has a PATH of its own
Environ == << <<"P","A","T","H">>, <<"H","O","M","E">> >>

\* the keys a request may carry
EnvKeys ==
    { <<"P","A","T","H">>, <<"p","a","t","h">>, <<"P","a","t","h">>,
      <<"P","A","T","H","S">>, <<"X","P","A","T","H">>,
      <<"L","D","_">>, <<"l","d","_","x">>, <<"L","D">>, <<"L","D","X">>,
      <<"L","D","_","P","R","E","L","O","A","D">>,
      <<"B","A","S","H","_","F","U","N","C","_","f">>,
      <<"b","a","s","h","_","f","u","n","c","_">>,
      <<"B","A","S","H","_","F","U","N","C">>,
      <<"B","A","S","H","_","E","N","V">>, <<"b","a","s","h","_","e","n","v">>,
      <<"E","N","V">>, <<"e","n","v">>, <<"E","N","V","S">>,
      <<"S","H","E","L","L","O","P","T","S">>,
      <<"B","A","S","H","O","P","T","S">>,
      <<"I","F","S">>, <<"i","f","s">>,
      <<"C","D","P","A","T","H">>,
      <<"G","L","O","B","I","G","N","O","R","E">>,
      <<"G","O","O","D">>, <<"H","O","M","E">>,
      <<"A","=","B">>, <<"=">>, <<"A",NUL>>, <<"P","A","T","H","=">>,
      <<>> }

\* entries of one request environment
MaxEnv == 2

RECURSIVE EnvMaps(_)
EnvMaps(n) ==
    IF n = 0 THEN {{}}
    ELSE LET smaller == EnvMaps(n - 1)
         IN  smaller \cup {m \cup {k} : m \in smaller, k \in EnvKeys}

InitEnv ==
    /\ ServerIdle
    /\ stream = NoStream /\ parsed = NotParsed
    /\ reqEnv \in EnvMaps(MaxEnv)
    /\ rest = reqEnv
    /\ env = Environ
    /\ fs = NoFiles /\ ar = NoCalls
    /\ UpdIdle /\ sock = NoSocket

\* the range loop visits the next key, in the order the map gives
Visit(k) == k \in rest /\ rest' = rest \ {k}

\* a key with '=' or NUL: warn and continue
EnvInvalid(k) ==
    /\ Visit(k)
    /\ Contains(k, "=") \/ Contains(k, NUL)
    /\ UNCHANGED <<updVars, sock, fs, ar, stream, parsed, reqEnv, env>>
    /\ UNCHANGED <<srvVars, connVars, execVars, runVars>>

\* a blocked key: warn and continue
EnvBlocked(k) ==
    /\ Visit(k)
    /\ ~(Contains(k, "=") \/ Contains(k, NUL))
    /\ isBlockedEnvVar(k)
    /\ UNCHANGED <<updVars, sock, fs, ar, stream, parsed, reqEnv, env>>
    /\ UNCHANGED <<srvVars, connVars, execVars, runVars>>

\* env = append(env, k+"="+v)
EnvAppend(k) ==
    /\ Visit(k)
    /\ ~(Contains(k, "=") \/ Contains(k, NUL))
    /\ ~isBlockedEnvVar(k)
    /\ env' = Append(env, k)
    /\ UNCHANGED <<updVars, sock, fs, ar, stream, parsed, reqEnv>>
    /\ UNCHANGED <<srvVars, connVars, execVars, runVars>>

NextEnv == \E k \in EnvKeys : EnvInvalid(k) \/ EnvBlocked(k) \/ EnvAppend(k)

SpecEnv == InitEnv /\ [][NextEnv]_vars

(***************************************************************************)
(* updater.AtomicReplace on a file system of three paths.  A call belongs  *)
(* to the update handler of a connection; every system call may fail.  A   *)
(* path names a file, and a descriptor keeps naming the file it was opened *)
(* on when the path is removed or renamed.                                 *)
(***************************************************************************)

\* ValidateBinary without its test of the size
ValidateBinaryNoSize(f) ==
    IF ~f.exists THEN "stat binary"
    ELSE IF f.mode # "0755" THEN "binary is not executable"
    ELSE ""

\* ValidateBinary: the file is there, is large enough and is executable
ValidateBinary(f) ==
    IF ~f.exists THEN "stat binary"
    ELSE IF Len(f.content) < minBinarySize THEN "binary too small"
    ELSE IF f.mode # "0755" THEN "binary is not executable"
    ELSE ""

\* the extracted binaries, the leftovers at tempPath, the live binaries.
\* The files that are there before a call have negative ids; the file a
\* call creates has the number of its connection.
SrcFiles ==
    { NoFile,
      File(-1, SubSeq(Image("new"), 1, minBinarySize - 1), "0755", "root"),
      File(-1, Image("new"), "0644", "root"),
      File(-1, Image("new"), "0755", "root") }
TempFiles ==
    { NoFile, File(-2, Image("stale"), "0755", "root"),
      File(-2, <<"stale">>, "0644", "vito") }
TargetFiles ==
    { File(-3, Image("old"), m, o) : m \in {"0755", "0700"}, o \in {"root", "vito"} }

\* one call, by the handler of the first connection
InitReplace ==
    /\ ServerIdle
    /\ stream = NoStream /\ parsed = NotParsed
    /\ reqEnv = {} /\ rest = {} /\ env = <<>>
    /\ UpdIdle /\ sock = NoSocket
    /\ \E f \in SrcFiles, g \in TempFiles, h \in TargetFiles :
          fs = [p \in Paths |-> IF p = targetPath THEN h
                                ELSE IF p = tempPath THEN g ELSE f]
    /\ ar = [c \in Conns |->
                IF c = ExecConn
                THEN [NotCalled EXCEPT !.pc = "validate", !.before = fs[targetPath]]
                ELSE NotCalled]

\* the frame of a step of AtomicReplace
ArFrame ==
    /\ UNCHANGED <<stream, parsed, reqEnv, rest, env>>
    /\ UNCHANGED <<updVars, sock>>
    /\ UNCHANGED <<srvVars, connVars, execVars, runVars>>

\* return fmt.Errorf(...)
ArFail(c, msg) == ar' = [ar EXCEPT ![c].pc = "done", ![c].err = msg]
ArGoto(c, l) == ar' = [ar EXCEPT ![c].pc = l]

\* os.Remove(tempPath), its error ignored: the file is gone, or, when the
\* call fails, still there
RemoveTemp(files) ==
    \E g \in {NoFile, files[tempPath]} :
        fs' = [p \in Paths |-> IF p = tempPath THEN g ELSE files[p]]

\* a write of data at offset off of a file with this content: the file
\* grows as needed, what was never written reads as zeroes
Pwrite(content, off, data) ==
    [i \in 1..(IF Len(content) > off + Len(data) THEN Len(content)
               ELSE off + Len(data)) |->
        IF i > off /\ i <= off + Len(data) THEN data[i - off]
        ELSE IF i <= Len(content) THEN content[i]
        ELSE "zero"]

\* dst.Write through the descriptor that names file id: the file changes
\* under whatever path names it now; a file that no path names any more is
\* out of sight
FdWrite(files, id, off, data) ==
    [p \in Paths |->
        IF files[p].exists /\ files[p].id = id
        THEN [files[p] EXCEPT !.content = Pwrite(@, off, data)]
        ELSE files[p]]

\* ValidateBinary(srcPath)
ArValidateSource(c) ==
    /\ ar[c].pc = "validate"
    /\ IF ValidateBinary(fs[srcPath]) # ""
       THEN ArFail(c, "validating source binary")
       ELSE ArGoto(c, "remove")
    /\ UNCHANGED fs
    /\ ArFrame

\* os.Remove(tempPath), its error ignored
ArRemoveTemp(c) ==
    /\ ar[c].pc = "remove"
    /\ RemoveTemp(fs)
    /\ ArGoto(c, "open")
    /\ ArFrame

\* os.Open(srcPath) and src.Stat()
ArOpenSource(c) ==
    /\ ar[c].pc = "open"
    /\ \E res \in {"", "opening source", "stat source"} :
          IF res # "" THEN ArFail(c, res) ELSE ArGoto(c, "create")
    /\ UNCHANGED fs
    /\ ArFrame

\* os.OpenFile(tempPath, O_CREATE|O_WRONLY|O_TRUNC, srcInfo.Mode()): a file
\* that is there is truncated and keeps its mode and owner; a new file
\* gets the mode of the source less the umask
ArCreateTemp(c) ==
    /\ ar[c].pc = "create"
    /\ \E ok \in BOOLEAN :
          IF ~ok
          THEN /\ ArFail(c, "creating temp file")
               /\ UNCHANGED fs
          ELSE IF fs[tempPath].exists
          THEN /\ fs' = [fs EXCEPT ![tempPath].content = <<>>]
               /\ ar' = [ar EXCEPT ![c].pc = "copy", ![c].dst = fs[tempPath].id]
          ELSE /\ \E m \in {fs[srcPath].mode, "0644"} :
                     fs' = [fs EXCEPT ![tempPath] = File(c, <<>>, m, "root")]
               /\ ar' = [ar EXCEPT ![c].pc = "copy", ![c].dst = c]
    /\ ArFrame

\* io.Copy(dst, src), its first Write; on an error the temp file is removed
ArCopy(c) ==
    /\ ar[c].pc = "copy"
    /\ \E ok \in BOOLEAN :
          IF ok
          THEN /\ ArGoto(c, "copy_rest")
               /\ fs' = FdWrite(fs, ar[c].dst, 0, SubSeq(fs[srcPath].content, 1, 1))
          ELSE /\ ArFail(c, "copying binary")
               /\ RemoveTemp(fs)
    /\ ArFrame

\* io.Copy(dst, src), the rest of it; on an error the temp file is removed
ArCopyRest(c) ==
    /\ ar[c].pc = "copy_rest"
    /\ \E ok \in BOOLEAN :
          IF ok
          THEN /\ ArGoto(c, "validate_copy")
               /\ fs' = FdWrite(fs, ar[c].dst, 1,
                                SubSeq(fs[srcPath].content, 2,
                                       Len(fs[srcPath].content)))
          ELSE /\ ArFail(c, "copying binary")
               /\ RemoveTemp(fs)
    /\ ArFrame

\* ValidateBinary(tempPath); on an error the temp file is removed
ArValidateCopy(c) ==
    /\ ar[c].pc = "validate_copy"
    /\ IF ValidateBinary(fs[tempPath]) # ""
       THEN /\ ArFail(c, "validating copied binary")
            /\ RemoveTemp(fs)
       ELSE /\ ArGoto(c, "chown")
            /\ UNCHANGED fs
    /\ ArFrame

\* os.Stat(targetPath) and os.Chown(tempPath, uid, gid), errors ignored
ArChown(c) ==
    /\ ar[c].pc = "chown"
    /\ \E ok \in BOOLEAN :
          fs' = IF ok /\ fs[targetPath].exists /\ fs[tempPath].exists
                THEN [fs EXCEPT ![tempPath].owner = fs[targetPath].owner]
                ELSE fs
    /\ ArGoto(c, "rename")
    /\ ArFrame

\* os.Rename(tempPath, targetPath), which fails when no file is at tempPath;
\* on an error the temp file is removed
ArRename(c) ==
    /\ ar[c].pc = "rename"
    /\ \E ok \in {fs[tempPath].exists, FALSE} :
          IF ok
          THEN /\ ArGoto(c, "done")
               /\ fs' = [p \in Paths |->
                            IF p = targetPath THEN fs[tempPath]
                            ELSE IF p = tempPath THEN NoFile ELSE fs[p]]
          ELSE /\ ArFail(c, "atomic rename")
               /\ RemoveTemp(fs)
    /\ ArFrame

AtomicReplace(c) ==
    \/ ArValidateSource(c) \/ ArRemoveTemp(c) \/ ArOpenSource(c)
    \/ ArCreateTemp(c) \/ ArCopy(c) \/ ArCopyRest(c) \/ ArValidateCopy(c)
    \/ ArChown(c) \/ ArRename(c)

NextReplace == AtomicReplace(ExecConn)

SpecReplace == InitReplace /\ [][NextReplace]_vars

(***************************************************************************)
(* Two update actions at once: the handlers of two connections each call   *)
(* AtomicReplace(extractedPath, BinaryPath) with a valid copy of the same  *)
(* release; nothing serialises the calls.                                  *)
(***************************************************************************)
InitReplaceBoth ==
    /\ ServerIdle
    /\ stream = NoStream /\ parsed = NotParsed
    /\ reqEnv = {} /\ rest = {} /\ env = <<>>
    /\ UpdIdle /\ sock = NoSocket
    /\ \E g \in TempFiles, h \in TargetFiles :
          fs = [p \in Paths |-> IF p = targetPath THEN h
                                ELSE IF p = tempPath THEN g
                                ELSE File(-1, Image("new"), "0755", "root")]
    /\ ar = [c \in Conns |->
                [NotCalled EXCEPT !.pc = "validate", !.before = fs[targetPath]]]

NextReplaceBoth == \E c \in Conns : AtomicReplace(c)

SpecReplaceBoth == InitReplaceBoth /\ [][NextReplaceBoth]_vars

(***************************************************************************)
(* Properties                                                              *)
(***************************************************************************)
\* a terminal record, as the specification lists them
IsTerminal(r) ==
    \/ r.type \in {"exit", "error", "version"}
    \/ r.type = "update" /\ r.text \in {"current", "applied", "restarting", "failed"}

\* the same without "applied", which a successful update sends before
\* "restarting"
IsFinal(r) ==
    \/ r.type \in {"exit", "error", "version"}
    \/ r.type = "update" /\ r.text \in {"current", "restarting", "failed"}

Terminals(c) == {i \in 1..Len(out[c]) : IsTerminal(out[c][i])}
Finals(c) == {i \in 1..Len(out[c]) : IsFinal(out[c][i])}

\* the handler of c is running: admitted and not yet returned
Running(c) == pc[c] \notin {"none", "done", "killed"}

\* the handler of c has written what it writes and is about to close
Returning(c) == pc[c] = "ret"

\* c was turned away by the accept loop and closed
Rejected(c) == closed[c] /\ pc[c] = "none"

\* max-connections as the documentation gives it
EffectiveMax == IF cfgMaxConnections <= 0 THEN 100 ELSE cfgMaxConnections

\* C1: a connection that carried an update action has a terminal record
\* written to it when its handler returns and closes it, whatever the
\* outcome of the update, cancellation after discovery included.
C1_UpdateHasTerminal ==
    \A c \in Conns :
        Returning(c) /\ kind[c] = "update" => Terminals(c) # {}

\* C2: on every connection at most one record that ends the exchange is
\* written (Exit, Error, Version, Update current / restarting / failed);
\* the "applied" record of a successful update comes before "restarting"
\* and is not counted.
C2_AtMostOneFinal ==
    \A c \in Conns : Cardinality(Finals(c)) <= 1

\* C2 as stated: at most one record among Exit, Error, Version and Update
\* current / applied / restarting / failed on every connection.
C2_AtMostOneTerminal ==
    \A c \in Conns : Cardinality(Terminals(c)) <= 1

\* C2, its case: a successful update has sent "applied" and "restarting"
C2_SuccessfulUpdate ==
    \E c \in Conns :
        /\ kind[c] = "update" /\ Returning(c)
        /\ \E i, j \in 1..Len(out[c]) :
              /\ i < j
              /\ out[c][i] = UpdateResponse("applied")
              /\ out[c][j] = UpdateResponse("restarting")

\* C3: on a command connection the Exit or Error record is the last
\* record written: nothing is written after it, however the two drainers
\* and the waiter interleave.
C3_TerminalIsLast ==
    \A c \in Conns :
        kind[c] = "command" =>
            \A i \in 1..Len(out[c]) :
                out[c][i].type \in {"exit", "error"} => i = Len(out[c])

\* C3, its case: both drainers delivered a chunk and the Exit record follows
C3_OutputThenExit ==
    \E c \in Conns :
        /\ kind[c] = "command" /\ Len(out[c]) = 3
        /\ out[c][1].type = "stderr" /\ out[c][2].type = "stdout"
        /\ out[c][3].type = "exit"

\* C4: a subprocess exists for a connection only if the peer's uid is the
\* allowed uid, the connection's handler was admitted (it is running and
\* the gate holds a slot), and its request parsed with an empty action.
C4_SpawnOnlyForCommand ==
    \A c \in Conns :
        spawned[c] =>
            /\ uid[c] = AllowedUID
            /\ Running(c) /\ connSem >= 1
            /\ kind[c] = "command" /\ req[c].Action = ""

\* C4, its case: a subprocess was spawned
C4_Spawned == \E c \in Conns : spawned[c] /\ child[c] = "running"

\* C5: the number of running handlers never exceeds max-connections,
\* a non-positive max-connections counting as 100.
C5_HandlersWithinMax ==
    Cardinality({c \in Conns : Running(c)}) <= EffectiveMax

\* C5, its case: the handlers are as many as max-connections and another
\* connection has arrived
C5_GateFull ==
    /\ Cardinality({c \in Conns : Running(c)}) = EffectiveMax
    /\ acceptPc = "conn"

\* C6: a connection rejected for an authentication failure carries
\* exactly one record, Error "unauthorized: connection rejected".
C6_AuthFailureOneError ==
    \A c \in Conns :
        Rejected(c) /\ uid[c] # AllowedUID =>
            out[c] = <<ErrorResponse("unauthorized: connection rejected")>>

\* the accept loop, holding connection c, can take a step
AcceptLoopCanStep(c) ==
    ENABLED (RejectAuth(c) \/ Admit(c) \/ RejectCapacity(c))

\* C7: when the accept loop holds a connection it never waits for a slot,
\* and the step it takes on an authorized connection while the gate is
\* full writes Error "server at maximum capacity", closes the connection,
\* leaves the gate and the wait group alone and returns to accepting.
C7_FullGateRejects ==
    /\ [](\A c \in Conns :
            Alive /\ acceptPc = "conn" /\ acceptConn = c => AcceptLoopCanStep(c))
    /\ [][\A c \in Conns :
            (/\ acceptPc = "conn" /\ acceptConn = c /\ acceptPc' = "accept"
             /\ uid'[c] = AllowedUID
             /\ connSem >= EffectiveMax)
            => (/\ out'[c] = <<ErrorResponse("server at maximum capacity")>>
                /\ closed'[c]
                /\ pc'[c] = "none"
                /\ connSem' = connSem /\ wg' = wg
                /\ listener' = listener)]_vars

\* C7, its case: an authorized connection was rejected at a full gate and
\* the loop is accepting again
C7_RejectedAtCapacity ==
    \E c \in Conns :
        /\ Rejected(c) /\ uid[c] = AllowedUID
        /\ connSem = EffectiveMax
        /\ acceptPc = "accept" /\ listener = "open"

\* a request object that parses as JSON, ends in a newline and is, with
\* its newline, no longer than MaxRequestSize
WellFormed(s) == s.body.valid /\ s.nl /\ StreamTotal(s) <= MaxRequestSize

PermittedActions == {"version", "check-update", "update"}

C9_TooLarge ==
    \A c \in Conns :
        req[c].nl /\ req[c].len > MaxRequestSize =>
            /\ kind[c] = "request too large"
            /\ req[c].read <= MaxRequestSize
            /\ Returning(c)
            /\ out[c] = <<ErrorResponse("request too large")>>

\* C9, its case: a handler has parsed such a request
C9_OverlongParsed ==
    \E c \in Conns : req[c].nl /\ req[c].len > MaxRequestSize /\ Returning(c)

\* the exact names the documentation blocks
DocumentedExact ==
    { <<"P","A","T","H">>, <<"B","A","S","H","_","E","N","V">>,
      <<"E","N","V">>, <<"S","H","E","L","L","O","P","T","S">>,
      <<"B","A","S","H","O","P","T","S">>, <<"I","F","S">>,
      <<"C","D","P","A","T","H">>,
      <<"G","L","O","B","I","G","N","O","R","E">> }

Passes(k) ==
    /\ ~Contains(k, "=") /\ ~Contains(k, NUL)
    /\ Upper(k) \notin DocumentedExact
    /\ ~HasPrefix(Upper(k), <<"L","D","_">>)
    /\ ~HasPrefix(Upper(k), <<"B","A","S","H","_","F","U","N","C","_">>)

C11_WriteFailureCancels ==
    /\ [][\A c \in Conns :
            (peerGone[c] /\ Len(out'[c]) > Len(out[c])) => execCancelled'[c]]_vars
    /\ \A c \in Conns :
          (execCancelled[c] /\ child[c] = "running")
              ~> (termSent[c] \/ child[c] # "running")

\* C11, its case: a record was written to a peer that is gone, the scope is
\* cancelled and the group of the running subprocess has been signalled
C11_SignalledAfterFailedWrite ==
    \E c \in Conns :
        /\ peerGone[c] /\ out[c] # <<>>
        /\ execCancelled[c] /\ ~rootCancelled
        /\ child[c] = "running" /\ termSent[c]

\* C12: once the peer of a running command is gone, the process group of
\* the command is sent SIGTERM, unless the command ends first: the command
\* is not left running for as long as it likes.
C12_DisconnectTerminates ==
    \A c \in Conns :
        (peerGone[c] /\ child[c] = "running")
            ~> (termSent[c] \/ child[c] # "running")

\* C13: once the root context is cancelled, by a signal or by the restart
\* request, the scope of every command connection is done, and the process
\* group of every subprocess still running is sent SIGTERM, unless the
\* subprocess ends first.
C13_RootCancelSignalsAll ==
    /\ [](rootCancelled => \A c \in Conns : CtxDone(c))
    /\ \A c \in Conns :
          (rootCancelled /\ child[c] = "running")
              ~> (termSent[c] \/ child[c] # "running")

\* C13, its case: the restart request cancelled the root context while a
\* command of another connection ran, and its group has been signalled
C13_SignalledOnRestart ==
    \E c \in Conns :
        /\ restartRequested /\ rootCancelled
        /\ ~execCancelled[c]
        /\ child[c] = "running" /\ termSent[c]

\* the bytes the child of c wrote to stream s, in order
Written(c, s) == [i \in 1..produced[c][s] |-> i]

\* the concatenation of the chunks that the sink of stream s was given, in
\* the order of delivery: the data of the records of that type on c
RECURSIVE Concat(_, _)
Concat(recs, s) ==
    IF recs = <<>> THEN <<>>
    ELSE (IF Head(recs).type = s THEN Head(recs).data ELSE <<>>)
             \o Concat(Tail(recs), s)

Delivered(c, s) == Concat(out[c], s)

\* C15: for each stream, what the sink was given, then what its drainer
\* holds, then what is still in the pipe, is what the child wrote, byte for
\* byte; and once Run is past wg.Wait() the sink was given all of it.
C15_NoLossNoReorder ==
    \A c \in Conns : \A s \in Streams :
        (Running(c) /\ spawned[c]) =>
            /\ Delivered(c, s) \o buf[c][s] \o pipe[c][s] = Written(c, s)
            /\ pc[c] \in {"cmd_wait", "term", "ret"} =>
                   Delivered(c, s) = Written(c, s)

\* C15, its case: Run returned; the child had written all its bytes to both
\* streams, a Read filled the buffer and stdout took more than one chunk
C15_ChunkedDelivery ==
    \E c \in Conns :
        /\ Returning(c) /\ spawned[c]
        /\ \A s \in Streams : produced[c][s] = MaxBytes
        /\ \E i, j \in 1..Len(out[c]) :
              /\ i < j
              /\ out[c][i].type = "stdout" /\ out[c][j].type = "stdout"
              /\ Len(out[c][i].data) = bufferSize

\* the last record written to c
Last(c) == out[c][Len(out[c])]

\* C14 as stated: the terminal record of a command is Error exactly when
\* the subprocess could not be started, and is otherwise Exit with the
\* wait status of the child.
C14_ErrorOnlyOnSpawnFailure ==
    \A c \in Conns :
        (kind[c] = "command" /\ Returning(c)) =>
            /\ Last(c).type = "error" <=> ~spawned[c]
            /\ spawned[c] => Last(c) = ExitResponse(status[c])

\* C14: when the handler of a command has written its terminal record, that
\* record is Exit with the wait status of the child if Run returned no
\* error, and Error with Run's error if it returned one; a child that
\* exited with a non-zero status has an Exit record with that status.  Run
\* returns an error when the subprocess could not be started, and when its
\* scope was cancelled and the child then exited with status 0.
C14_ExitIffNoError ==
    \A c \in Conns :
        (kind[c] = "command" /\ Returning(c)) =>
            /\ runResult[c].err = "" =>
                   /\ child[c] = "reaped"
                   /\ Last(c) = ExitResponse(status[c])
            /\ runResult[c].err # "" => Last(c) = ErrorResponse(runResult[c].err)
            /\ (child[c] = "reaped" /\ status[c] # 0) =>
                   Last(c) = ExitResponse(status[c])
            /\ runResult[c].err # "" =>
                   \/ ~spawned[c]
                   \/ child[c] = "reaped" /\ status[c] = 0 /\ CtxDone(c)

\* C14, its case: a child that was never signalled exited with status 1
\* and the handler wrote Exit with code 1
C14_NonZeroExit ==
    \E c \in Conns :
        /\ kind[c] = "command" /\ Returning(c)
        /\ child[c] = "reaped" /\ status[c] = 1 /\ ~CtxDone(c)
        /\ Last(c) = ExitResponse(1)

\* the statuses of the Update records written to c, in order
RECURSIVE StatusesOf(_)
StatusesOf(recs) ==
    IF recs = <<>> THEN <<>>
    ELSE (IF Head(recs).type = "update" THEN <<Head(recs).text>> ELSE <<>>)
             \o StatusesOf(Tail(recs))

Statuses(c) == StatusesOf(out[c])

IsPrefix(p, q) == Len(p) <= Len(q) /\ SubSeq(q, 1, Len(p)) = p

\* the sequences of statuses the documentation gives for an update action
DocumentedSequences ==
    { <<"current">>, <<"downloading", "failed">>,
      <<"downloading", "applied", "restarting">> }

\* the sequences of statuses an update action that ran to its end writes
UpdateSequences == DocumentedSequences \cup { <<"failed">>, <<>> }

\* C16 as stated: an update action that is over has written one of the
\* documented sequences of statuses.
C16_DocumentedSequence ==
    \A c \in Conns :
        (kind[c] = "update" /\ Returning(c)) => Statuses(c) \in DocumentedSequences

\* C16: an update action writes Update records only; at every moment their
\* statuses are the beginning of current, of failed, of downloading failed
\* or of downloading applied restarting, and when the action is over they
\* are one of these four or, after a cancellation before the download,
\* none at all: failed may come without downloading.
C16_UpdateSequence ==
    \A c \in Conns :
        kind[c] = "update" =>
            /\ Len(Statuses(c)) = Len(out[c])
            /\ \E q \in UpdateSequences : IsPrefix(Statuses(c), q)
            /\ Returning(c) => Statuses(c) \in UpdateSequences

\* C16, its case: an update with a configured binary path is over and wrote
\* failed alone
C16_FailedWithoutDownload ==
    \E c \in Conns :
        /\ kind[c] = "update" /\ Returning(c) /\ binaryPath
        /\ Statuses(c) = <<"failed">>

\* C17: an asset is downloaded and the live binary replaced only for an
\* update action whose discovery found a newer version; a check-update
\* action, and an update action that found the version current, do
\* neither and end with exactly one record, an Update record.
C17_DownloadOnlyWhenNewer ==
    \A c \in Conns :
        /\ (upd[c].downloaded \/ upd[c].replaced) =>
               kind[c] = "update" /\ upd[c].found = "newer"
        /\ ( /\ Returning(c)
             /\ \/ kind[c] = "check-update"
                \/ kind[c] = "update" /\ upd[c].found = "current" ) =>
               /\ ~upd[c].downloaded /\ ~upd[c].replaced
               /\ Len(out[c]) = 1 /\ out[c][1].type = "update"

\* C17, its case: a check-update action found a newer version and ended
\* with the one record "available", while an update action of another
\* connection that found the same replaced the binary
C17_CheckUpdateAvailable ==
    \E c, d \in Conns :
        /\ kind[c] = "check-update" /\ Returning(c)
        /\ upd[c].found = "available" /\ out[c] = <<UpdateResponse("available")>>
        /\ kind[d] = "update" /\ upd[d].downloaded /\ upd[d].replaced

\* C18: the restart is requested only by the handler of an update action
\* that replaced the live binary, after it wrote applied and then
\* restarting; an update that failed, was cancelled or found the version
\* current makes no request.
C18_RestartOnlyAfterApplied ==
    [][(restartRequested' /\ ~restartRequested) =>
          \E c \in Conns :
              /\ kind[c] = "update" /\ upd[c].found = "newer"
              /\ upd[c].replaced
              /\ Statuses(c) = <<"downloading", "applied", "restarting">>
              /\ pc[c] = "upd_sleep" /\ pc'[c] = "ret"
              /\ \A d \in Conns \ {c} : pc'[d] = pc[d]]_vars

\* C18, its case: an update replaced the binary, wrote restarting and has
\* requested the restart, which main has not yet taken up
C18_RestartRequested ==
    \E c \in Conns :
        /\ kind[c] = "update" /\ Returning(c) /\ upd[c].replaced
        /\ restartRequested /\ mainPc = "running"

\* C19: a restart request leads to the root context being cancelled and the
\* listener closed; main enters Shutdown once, from its select, by a step
\* that cancels the root context and closes the listener, and never comes
\* back; Shutdown returns when the handlers are done or its time is up, and
\* the process then ends with exit code 0, after a restart request as
\* after a signal.
C19_RestartShutsDownExitZero ==
    /\ restartRequested ~> (rootCancelled /\ listener = "closed")
    /\ rootCancelled ~> ~Alive
    /\ [][ /\ mainPc # "running" => mainPc' # "running"
           /\ (mainPc' = "draining" /\ mainPc # "draining") =>
                  /\ mainPc = "running"
                  /\ ~rootCancelled /\ rootCancelled'
                  /\ listener = "open" /\ listener' = "closed"
           /\ (mainPc' = "drained" /\ mainPc # "drained") =>
                  mainPc = "draining" /\ wg = 0
           /\ (mainPc' = "exited" /\ mainPc # "exited") =>
                  mainPc = "drained" ]_vars
    /\ [](~Alive => (rootCancelled /\ listener = "closed" /\ ExitCodes = {0}))

\* C19, its case: the restart was requested, main shut the server down,
\* every handler was drained and the process ended with exit code 0
C19_ExitedAfterRestart ==
    /\ restartRequested /\ rootCancelled /\ listener = "closed"
    /\ mainPc = "exited" /\ wg = 0
    /\ ExitCodes = {0}

\* C20: when AtomicReplace has returned an error the file at targetPath is
\* the file that was there before the call, in content, mode and owner;
\* the file at targetPath changes in one step only, the rename that
\* succeeds, after which AtomicReplace returns nil.
C20_TargetUntouchedOnError ==
    /\ []((ar[ExecConn].pc = "done" /\ ar[ExecConn].err # "") =>
              fs[targetPath] = ar[ExecConn].before)
    /\ [][fs'[targetPath] # fs[targetPath] =>
            /\ ar[ExecConn].pc = "rename"
            /\ ar'[ExecConn].pc = "done" /\ ar'[ExecConn].err = ""
            /\ fs[targetPath] = ar[ExecConn].before
            /\ fs'[targetPath] = fs[tempPath]]_vars

\* C20, its case: the copy was made and validated, the rename failed, and
\* the live binary is what it was
C20_RenameFailed ==
    /\ ar[ExecConn].pc = "done" /\ ar[ExecConn].err = "atomic rename"
    /\ fs[targetPath] = ar[ExecConn].before
    /\ fs[targetPath].content = Image("old")

\* the live binary is a complete image: the one that was there before the
\* updates, or a whole copy of the new one that passes ValidateBinary
CompleteImage(f) ==
    \/ f.exists /\ f.content = Image("old")
    \/ f.content = Image("new") /\ ValidateBinary(f) = ""

\* C21: at every moment, with the update actions of two connections
\* replacing the binary at the same time, the file at the live binary path
\* is the complete previous image or a complete validated new image, never
\* a file that is partly written.
C21_LiveBinaryComplete == ar # NoCalls => CompleteImage(fs[targetPath])

\* the command of c was started before Shutdown was called, Shutdown is
\* waiting, and the handler of c has written what it writes to a peer that
\* is still there
FinishedWhileDraining(c) ==
    /\ mainPc = "draining"
    /\ kind[c] = "command" /\ spawned[c] /\ Returning(c)
    /\ ~peerGone[c]

C24_AcceptLoopSurvives ==
    /\ []((Alive /\ listener = "open") => acceptPc \in {"accept", "conn"})
    /\ []((Alive /\ listener = "open" /\ acceptPc = "accept"
             /\ nextConn \in Conns) => ENABLED Accept(nextConn))
    /\ [](\A c \in Conns :
            (Alive /\ acceptPc = "conn" /\ acceptConn = c) => AcceptLoopCanStep(c))
    /\ [][ /\ (acceptPc = "conn" /\ acceptPc' # "conn" /\ Alive') =>
                  acceptPc' = "accept"
           /\ (acceptPc' = "stopped" /\ acceptPc # "stopped") =>
                  (listener' = "closed" /\ (Alive' => acceptPc = "accept"))
           /\ nextConn' # nextConn =>
                  (listener = "open" /\ acceptPc = "accept") ]_vars

\* C24, its case: the first connection was rejected for its uid; the
\* handler of the second could not start its command and failed to write
\* the Error record to a peer that is gone; the loop is back at AcceptUnix
\* with the listener open
C24_AcceptingAfterFailures ==
    /\ NumConns >= 2
    /\ Rejected(1) /\ uid[1] # AllowedUID
    /\ Returning(2) /\ peerGone[2] /\ ~spawned[2]
    /\ Last(2).type = "error"
    /\ acceptPc = "accept" /\ listener = "open" /\ Alive

(***************************************************************************)
(* Version comparison (updater).  A version is a string, a sequence of     *)
(* one-character strings as in the environment keys above.                 *)
(***************************************************************************)

\* strings.TrimSpace: the string without its leading and trailing blanks
TrimSpace(v) ==
    LET inked == {i \in 1..Len(v) : v[i] # " "}
    IN  IF inked = {} THEN <<>>
        ELSE SubSeq(v, CHOOSE i \in inked : \A j \in inked : i <= j,
                       CHOOSE i \in inked : \A j \in inked : i >= j)

\* strings.TrimPrefix
TrimPrefix(v, prefix) ==
    IF HasPrefix(v, prefix) THEN SubSeq(v, Len(prefix) + 1, Len(v)) ELSE v

normalizeVersion(version) == TrimPrefix(TrimSpace(version), <<"v">>)

\* strings.IndexAny, counted from 1: 0 when no character of chars occurs
IndexAny(part, chars) ==
    LET hits == {i \in 1..Len(part) : part[i] \in chars}
    IN  IF hits = {} THEN 0 ELSE CHOOSE i \in hits : \A j \in hits : i <= j

\* strings.Split
RECURSIVE Split(_, _)
Split(v, sep) ==
    LET idx == IndexAny(v, {sep})
    IN  IF idx = 0 THEN <<v>>
        ELSE <<SubSeq(v, 1, idx - 1)>> \o Split(SubSeq(v, idx + 1, Len(v)), sep)

DigitVal(ch) ==
    CASE ch = "0" -> 0 [] ch = "1" -> 1 [] ch = "2" -> 2 [] ch = "3" -> 3
      [] ch = "4" -> 4 [] ch = "5" -> 5 [] ch = "6" -> 6 [] ch = "7" -> 7
      [] ch = "8" -> 8 [] ch = "9" -> 9 [] OTHER -> -1

\* the value of a run of decimal digits
RECURSIVE Decimal(_)
Decimal(ds) ==
    IF ds = <<>> THEN 0
    ELSE 10 * Decimal(SubSeq(ds, 1, Len(ds) - 1)) + DigitVal(ds[Len(ds)])

\* fmt.Sscanf(part, "%d", &num) for a part without a sign: blanks are
\* skipped, then the digits up to the first other character are read; with
\* no digit there the scan fails and num keeps its zero
Sscanf(part) ==
    LET p == TrimSpace(part)
        stop == IndexAny(p, {p[i] : i \in 1..Len(p)} \ {"0", "1", "2", "3", "4", "5", "6", "7", "8", "9"})
        digits == IF stop = 0 THEN p ELSE SubSeq(p, 1, stop - 1)
    IN  Decimal(digits)

parseVersion(v) ==
    LET parts == Split(v, ".")
        cut(part) == LET idx == IndexAny(part, {"-", "+"})
                     IN  IF idx > 0 THEN SubSeq(part, 1, idx - 1) ELSE part
    IN  [i \in 1..Len(parts) |-> Sscanf(cut(parts[i]))]

\* isNewerVersion with an update always on offer to an empty or "dev"
\* current version
isNewerVersionDevAlways(current, latest) ==
    IF current = <<>> \/ current = <<"d", "e", "v">>
    THEN TRUE
    ELSE LET currentParts == parseVersion(current)
             latestParts == parseVersion(latest)
             both == 1..Min(Len(currentParts), Len(latestParts))
             differ == {i \in both : latestParts[i] # currentParts[i]}
             first == CHOOSE i \in differ : \A j \in differ : i <= j
         IN  IF differ # {} THEN latestParts[first] > currentParts[first]
             ELSE Len(latestParts) > Len(currentParts)

isNewerVersion(current, latest) ==
    IF current = <<>> \/ current = <<"d", "e", "v">>
    THEN latest # <<>> /\ latest # <<"d", "e", "v">>
    ELSE LET currentParts == parseVersion(current)
             latestParts == parseVersion(latest)
             both == 1..Min(Len(currentParts), Len(latestParts))
             differ == {i \in both : latestParts[i] # currentParts[i]}
             first == CHOOSE i \in differ : \A j \in differ : i <= j
         IN  IF differ # {} THEN latestParts[first] > currentParts[first]
             ELSE Len(latestParts) > Len(currentParts)

\* the version strings compared: the build's and the tags of releases
Versions ==
    { <<>>, <<"d", "e", "v">>, <<"v">>, <<"v", "d", "e", "v">>,
      <<" ", "d", "e", "v", " ">>, <<"x">>, <<"0">>, <<"0", ".", "0">>,
      <<"1">>, <<"v", "1">>, <<" ", "v", "1", ".", "0">>,
      <<"1", ".", "0", ".", "0">>, <<"1", ".", "0", ".", "1">>,
      <<"v", "1", ".", "1">>, <<"1", ".", "9">>, <<"1", ".", "1", "0">>,
      <<"1", ".", "x">>, <<"1", ".", "0", ".", "0", "-", "b">>,
      <<"1", ".", "0", "-", "b", ".", "2">>, <<"2", "+", "b">>,
      <<"v", "v", "2">>, <<"-", "1">>, <<"1", ".">> }

InitVersion ==
    /\ ServerIdle
    /\ stream = NoStream /\ parsed = NotParsed
    /\ reqEnv = {} /\ rest = {} /\ env = <<>>
    /\ fs = NoFiles /\ ar = NoCalls
    /\ sock = NoSocket
    /\ assets = <<>> /\ asset = NotSearched
    /\ tarball = <<>> /\ extracted = NotExtracted
    /\ versions \in Versions \X Versions \X Versions
    /\ cmp = NotCompared

\* CheckUpdate's comparison, made of every pair of the three versions:
\* <<i, j>> is in newer when the j-th is found newer than the i-th
Compare ==
    /\ ~cmp.done
    /\ cmp' = [done |-> TRUE,
               newer |-> {p \in (1..3) \X (1..3) :
                            isNewerVersion(normalizeVersion(versions[p[1]]),
                                           normalizeVersion(versions[p[2]]))}]
    /\ UNCHANGED <<srvVars, connVars, execVars, runVars>>
    /\ UNCHANGED <<stream, parsed, reqEnv, rest, env, fs, ar, sock>>
    /\ UNCHANGED <<versions, assets, asset, tarball, extracted>>

NextVersion == Compare

SpecVersion == InitVersion /\ [][NextVersion]_vars

\* C25: isNewerVersion, applied to normalized versions, is a strict weak
\* ordering of version strings, the empty one, "dev" and those with a
\* pre-release suffix included: no version is newer than itself, of two
\* versions at most one is newer than the other, newer-than is transitive,
\* and so is being neither newer nor older.
C25_StrictWeakOrdering ==
    cmp.done =>
        LET lt(i, j) == <<i, j>> \in cmp.newer
            eq(i, j) == ~lt(i, j) /\ ~lt(j, i)
        IN  /\ \A i \in 1..3 : ~lt(i, i)
            /\ \A i, j \in 1..3 : lt(i, j) => ~lt(j, i)
            /\ \A i, j, k \in 1..3 : lt(i, j) /\ lt(j, k) => lt(i, k)
            /\ \A i, j, k \in 1..3 : eq(i, j) /\ eq(j, k) => eq(i, k)

\* a "dev" build, a release that parses as 0 and a release with a
\* pre-release suffix were compared and found in ascending order
C25_DevZeroSuffixCompared ==
    /\ cmp.done
    /\ versions = << <<" ", "d", "e", "v", " ">>, <<"x">>,
                     <<"1", ".", "0", ".", "0", "-", "b">> >>
    /\ {<<1, 2>>, <<2, 3>>, <<1, 3>>} \subseteq cmp.newer

(***************************************************************************)
(* Choice of the release asset (updater).  An asset name is a sequence of  *)
(* the pieces names are made of; a piece holds no part of another piece,   *)
(* so a name contains a pattern exactly when the pattern's pieces occur    *)
(* in it one after the other.                                              *)
(***************************************************************************)

\* runtime.GOOS and runtime.GOARCH of the build
GOOS == "linux"
GOARCH == "amd64"

\* strings.ToLower of a piece
LowerPiece(piece) ==
    CASE piece = "VITO-ROOT-SERVICE" -> "vito-root-service"
      [] piece = "LINUX" -> "linux"
      [] piece = "AMD64" -> "amd64"
      [] piece = ".TAR.GZ" -> ".tar.gz"
      [] OTHER -> piece

Lower(name) == [i \in 1..Len(name) |-> LowerPiece(name[i])]

\* strings.Contains of two strings
ContainsStr(name, pattern) ==
    \E i \in 0..(Len(name) - Len(pattern)) :
        SubSeq(name, i + 1, i + Len(pattern)) = pattern

\* strings.HasSuffix
HasSuffix(name, suffix) ==
    /\ Len(name) >= Len(suffix)
    /\ SubSeq(name, Len(name) - Len(suffix) + 1, Len(name)) = suffix

patterns ==
    << <<"vito-root-service", "-", GOOS, "-", GOARCH, ".tar.gz">>,
       <<"vito-root-service", "_", GOOS, "_", GOARCH, ".tar.gz">>,
       <<GOOS, "-", GOARCH, ".tar.gz">>,
       <<GOOS, "_", GOARCH, ".tar.gz">> >>

archPatterns ==
    << <<GOOS, "-", GOARCH>>, <<GOOS, "_", GOARCH>> >>

\* the test of the first loop, for one asset and one pattern
MatchesPattern(assetName, k) ==
    LET name == Lower(assetName)
    IN  ContainsStr(name, Lower(patterns[k])) \/ name = Lower(patterns[k])

\* the test of the fallback loop, for one asset
MatchesFallback(assetName) ==
    LET name == Lower(assetName)
    IN  \E k \in 1..Len(archPatterns) :
            ContainsStr(name, archPatterns[k]) /\ HasSuffix(name, <<".tar.gz">>)

\* the first element of a non-empty set of numbers
First(S) == CHOOSE i \in S : \A j \in S : i <= j

\* the place in release.Assets of the asset returned: the first asset that
\* passes the test for any pattern, else the first that passes the fallback
\* test, else an error
FindAssetForPlatform(release) ==
    LET byPattern == {i \in 1..Len(release) :
                        \E k \in 1..Len(patterns) : MatchesPattern(release[i], k)}
        byArch == {i \in 1..Len(release) : MatchesFallback(release[i])}
    IN  IF byPattern # {}
        THEN [done |-> TRUE, err |-> FALSE, index |-> First(byPattern)]
        ELSE IF byArch # {}
        THEN [done |-> TRUE, err |-> FALSE, index |-> First(byArch)]
        ELSE [done |-> TRUE, err |-> TRUE, index |-> 0]

\* the asset names a release is made of
AssetNames ==
    { <<"vito-root-service", "-", "linux", "-", "amd64", ".tar.gz">>,
      <<"VITO-ROOT-SERVICE", "_", "LINUX", "_", "AMD64", ".TAR.GZ">>,
      <<"linux", "-", "amd64", ".tar.gz">>,
      <<"tools", "-", "linux", "_", "amd64", ".tar.gz">>,
      <<"vito-root-service", "-", "linux", "-", "amd64", ".tar.gz", ".sha256">>,
      <<"vito", "-", "linux", "-", "amd64", "-", "musl", ".tar.gz">>,
      <<"vito-root-service", "-", "linux", "-", "arm64", ".tar.gz">>,
      <<"vito-root-service", "-", "windows", "-", "amd64", ".zip">>,
      <<"linux", "_", "amd64", ".zip">> }

\* the largest number of assets of a release
MaxAssets == 3

InitAsset ==
    /\ ServerIdle
    /\ stream = NoStream /\ parsed = NotParsed
    /\ reqEnv = {} /\ rest = {} /\ env = <<>>
    /\ fs = NoFiles /\ ar = NoCalls
    /\ sock = NoSocket
    /\ versions = <<>> /\ cmp = NotCompared
    /\ tarball = <<>> /\ extracted = NotExtracted
    /\ \E n \in 0..MaxAssets : assets \in [1..n -> AssetNames]
    /\ asset = NotSearched

\* PerformUpdate's call of FindAssetForPlatform
FindAsset ==
    /\ ~asset.done
    /\ asset' = FindAssetForPlatform(assets)
    /\ UNCHANGED <<srvVars, connVars, execVars, runVars>>
    /\ UNCHANGED <<stream, parsed, reqEnv, rest, env, fs, ar, sock>>
    /\ UNCHANGED <<versions, cmp, assets, tarball, extracted>>

NextAsset == FindAsset

SpecAsset == InitAsset /\ [][NextAsset]_vars

\* the patterns that some asset of the release matches
PatternsMatched ==
    {k \in 1..Len(patterns) : \E i \in 1..Len(assets) : MatchesPattern(assets[i], k)}

\* C26: the asset returned matches the earliest of the four patterns that
\* any asset of the release matches, whatever the order of the assets; the
\* fallback decides only when no pattern matches, and an error is returned
\* exactly when no asset matches a pattern or the fallback.
C26_EarliestPatternWins ==
    asset.done =>
        /\ asset.err <=> /\ PatternsMatched = {}
                         /\ \A i \in 1..Len(assets) : ~MatchesFallback(assets[i])
        /\ PatternsMatched # {} =>
              /\ ~asset.err
              /\ MatchesPattern(assets[asset.index], First(PatternsMatched))
        /\ (PatternsMatched = {} /\ ~asset.err) =>
              MatchesFallback(assets[asset.index])

(***************************************************************************)
(* Extraction of the binary from the downloaded archive (updater).  A path *)
(* is a string, a sequence of one-character strings.                       *)
(***************************************************************************)

\* the elements of a path that filepath.Clean keeps
Segs(path) ==
    SelectSeq(Split(path, "/"), LAMBDA seg : seg # <<>> /\ seg # <<".">>)

\* filepath.Clean's treatment of "..": it takes the element before it away,
\* is dropped at the root, and stays at the head of a relative path
RECURSIVE Resolve(_, _, _)
Resolve(segs, kept, rooted) ==
    IF segs = <<>> THEN kept
    ELSE IF Head(segs) # <<".", ".">>
    THEN Resolve(Tail(segs), Append(kept, Head(segs)), rooted)
    ELSE IF kept # <<>> /\ kept[Len(kept)] # <<".", ".">>
    THEN Resolve(Tail(segs), SubSeq(kept, 1, Len(kept) - 1), rooted)
    ELSE IF rooted THEN Resolve(Tail(segs), kept, rooted)
    ELSE Resolve(Tail(segs), Append(kept, Head(segs)), rooted)

RECURSIVE JoinSegs(_)
JoinSegs(segs) ==
    IF Len(segs) = 1 THEN segs[1]
    ELSE segs[1] \o <<"/">> \o JoinSegs(Tail(segs))

\* filepath.Clean
Clean(path) ==
    LET rooted == path # <<>> /\ path[1] = "/"
        kept == Resolve(Segs(path), <<>>, rooted)
    IN  IF kept = <<>> THEN (IF rooted THEN <<"/">> ELSE <<".">>)
        ELSE (IF rooted THEN <<"/">> ELSE <<>>) \o JoinSegs(kept)

\* filepath.Join of two non-empty elements
Join(base, name) == Clean(base \o <<"/">> \o name)

\* filepath.Base: the last element, trailing slashes left aside
Base(path) ==
    LET named == {i \in 1..Len(path) : path[i] # "/"}
        stripped == IF named = {} THEN <<>>
                    ELSE SubSeq(path, 1, CHOOSE i \in named : \A j \in named : i >= j)
        segs == Split(stripped, "/")
    IN  IF path = <<>> THEN <<".">>
        ELSE IF stripped = <<>> THEN <<"/">>
        ELSE segs[Len(segs)]

\* sanitizePath without its first test
sanitizePathNoPrefixTest(base, name) ==
    LET cleaned == Clean(name)
        full == Join(base, cleaned)
    IN  IF ~HasPrefix(full, Clean(base) \o <<"/">>) /\ full # Clean(base)
        THEN [err |-> TRUE, path |-> <<>>]
        ELSE [err |-> FALSE, path |-> full]

\* sanitizePath: err is whether it returns an error, path what it returns
sanitizePath(base, name) ==
    LET cleaned == Clean(name)
        full == Join(base, cleaned)
    IN  IF HasPrefix(cleaned, <<".", ".">>) \/ HasPrefix(cleaned, <<"/">>)
        THEN [err |-> TRUE, path |-> <<>>]
        ELSE IF ~HasPrefix(full, Clean(base) \o <<"/">>) /\ full # Clean(base)
        THEN [err |-> TRUE, path |-> <<>>]
        ELSE [err |-> FALSE, path |-> full]

\* filepath.Base(u.BinaryPath) and the directory os.MkdirTemp made
binaryName == <<"b">>
destDir == <<"/", "t">>

\* maxExtractSize, scaled down like minBinarySize
maxExtractSize == 3

\* the names of archive entries
Names ==
    { <<"b">>, <<"x", "/", "b">>, <<".", "/", "b">>, <<"x">>, <<>>,
      <<".", ".", "/", "b">>, <<"/", "b">>, <<"x", "/", ".", ".", "/", "b">>,
      <<"x", "/", ".", ".", "/", ".", ".", "/", "b">>, <<".", ".", "b">> }

\* the entries of an archive: header.Name, header.Typeflag and the number
\* of chunks the entry's content has
Entries ==
    [name : Names, typeflag : {"reg", "dir"},
     size : {minBinarySize - 1, minBinarySize, maxExtractSize + 1}]

\* the largest number of entries of an archive
MaxEntries == 2

\* the entry extractBinary's loop stops at, 0 when it reaches the end
Selected(tb) ==
    LET hits == {i \in 1..Len(tb) :
                    Base(tb[i].name) = binaryName /\ tb[i].typeflag = "reg"}
    IN  IF hits = {} THEN 0 ELSE First(hits)

\* extractBinary: what it returns, the path it opened, what io.Copy wrote
\* and the file it leaves at the path
extractBinary(tb, name, dir) ==
    LET hits == {i \in 1..Len(tb) :
                    Base(tb[i].name) = name /\ tb[i].typeflag = "reg"}
        header == tb[First(hits)]
        sane == sanitizePath(dir, name)
        written == Min(header.size, maxExtractSize)
    IN  IF hits = {}
        THEN [err |-> "not found in tarball", path |-> <<>>, opened |-> <<>>,
              written |-> 0, file |-> NoFile]
        ELSE IF sane.err
        THEN [err |-> "invalid extraction path", path |-> <<>>, opened |-> <<>>,
              written |-> 0, file |-> NoFile]
        ELSE IF written < minBinarySize
        THEN [err |-> "binary too small", path |-> <<>>, opened |-> sane.path,
              written |-> written, file |-> NoFile]
        ELSE [err |-> "", path |-> sane.path, opened |-> sane.path,
              written |-> written,
              file |-> File(-1, [i \in 1..written |-> "new"], "0755", "root")]

\* an archive was downloaded, or, as in SpecReplace, AtomicReplace is called
\* with a file that did not come out of extractBinary
InitExtract ==
    \/ /\ ServerIdle
       /\ stream = NoStream /\ parsed = NotParsed
       /\ reqEnv = {} /\ rest = {} /\ env = <<>>
       /\ sock = NoSocket
       /\ versions = <<>> /\ cmp = NotCompared
       /\ assets = <<>> /\ asset = NotSearched
       /\ \E n \in 0..MaxEntries : tarball \in [1..n -> Entries]
       /\ extracted = NotExtracted
       /\ fs = [p \in Paths |-> IF p = targetPath
                                THEN File(-3, Image("old"), "0755", "root")
                                ELSE NoFile]
       /\ ar = NoCalls
    \/ InitReplace

\* PerformUpdate's call of DownloadAndExtract and, when that returns no
\* error, the start of its call of AtomicReplace
ExtractBinary ==
    /\ ~extracted.done /\ ar = NoCalls
    /\ LET r == extractBinary(tarball, binaryName, destDir)
       IN  /\ extracted' = [extracted EXCEPT !.done = TRUE, !.err = r.err,
                               !.path = r.path, !.opened = r.opened,
                               !.written = r.written]
           /\ fs' = [fs EXCEPT ![srcPath] = r.file]
           /\ ar' = IF r.err = ""
                    THEN [ar EXCEPT ![ExecConn] =
                             [NotCalled EXCEPT !.pc = "validate",
                                               !.before = fs[targetPath]]]
                    ELSE ar
    /\ UNCHANGED <<srvVars, connVars, execVars, runVars>>
    /\ UNCHANGED <<stream, parsed, reqEnv, rest, env, sock>>
    /\ UNCHANGED <<versions, cmp, assets, asset, tarball>>

\* sanitizePath applied to the name of every entry, as TestSanitizePath
\* applies it to its table
TestSanitizePath ==
    /\ extracted.sane = <<>> /\ tarball # <<>>
    /\ extracted' = [extracted EXCEPT !.sane =
                        [i \in 1..Len(tarball) |->
                            sanitizePath(destDir, tarball[i].name)]]
    /\ UNCHANGED <<srvVars, connVars, execVars, runVars>>
    /\ UNCHANGED <<stream, parsed, reqEnv, rest, env, sock, fs, ar>>
    /\ UNCHANGED <<versions, cmp, assets, asset, tarball>>

NextExtract ==
    \/ ExtractBinary
    \/ TestSanitizePath
    \/ AtomicReplace(ExecConn)

SpecExtract == InitExtract /\ [][NextExtract]_vars

\* a clean path that lies in the directory base or below it
Under(path, base) ==
    /\ HasPrefix(Split(path, "/"), Split(base, "/"))
    /\ \A i \in 1..Len(Split(path, "/")) : Split(path, "/")[i] # <<".", ".">>

IsAbs(name) == HasPrefix(name, <<"/">>)

C28_SizeLimits ==
    /\ extracted.written <= maxExtractSize
    /\ (fs[srcPath].exists /\ extracted.done) =>
          Len(fs[srcPath].content) <= maxExtractSize
    /\ (extracted.done /\ Selected(tarball) # 0
          /\ tarball[Selected(tarball)].size < minBinarySize)
          => (extracted.err # "" /\ ar = NoCalls /\ ~fs[srcPath].exists)
    /\ (ar[ExecConn].pc \notin {"idle", "validate"}
          /\ Len(fs[srcPath].content) < minBinarySize)
          => (ar[ExecConn].pc = "done" /\ ar[ExecConn].err # "")
    /\ fs[targetPath].exists
    /\ Len(fs[targetPath].content) >= minBinarySize
    /\ fs[targetPath].mode \in {"0755", "0700"}

\* an entry larger than maxExtractSize was cut at the limit and installed
C28_CutAndInstalled ==
    /\ extracted.done /\ Selected(tarball) # 0
    /\ tarball[Selected(tarball)].size > maxExtractSize
    /\ extracted.written = maxExtractSize
    /\ ar[ExecConn].pc = "done" /\ ar[ExecConn].err = ""
    /\ fs[targetPath].id = ExecConn
    /\ Len(fs[targetPath].content) = maxExtractSize

(***************************************************************************)
(* The socket file (server).  sock holds the environment the broker is     *)
(* started in (LISTEN_FDS, what descriptor 3 is, the file at the socket    *)
(* path), the listener Start made, and did, the operations of the broker   *)
(* that changed the file, in their order.                                  *)
(***************************************************************************)

\* strconv.Atoi: an optional sign and then digits only
Atoi(s) ==
    LET body == IF s # <<>> /\ s[1] \in {"+", "-"} THEN Tail(s) ELSE s
        ok == body # <<>> /\ \A i \in 1..Len(body) : DigitVal(body[i]) >= 0
    IN  [err |-> ~ok,
         n |-> IF ~ok THEN 0
               ELSE IF s[1] = "-" THEN 0 - Decimal(body) ELSE Decimal(body)]

\* the values of LISTEN_FDS
ListenFDs ==
    { <<>>, <<"1">>, <<"2">>, <<"+", "1">>, <<"0">>, <<"-", "1">>, <<"x">>,
      <<"1", "x">>, <<" ", "1">> }

\* the test createListener makes of LISTEN_FDS
Activated(listenFDs) ==
    listenFDs # <<>> /\ ~Atoi(listenFDs).err /\ Atoi(listenFDs).n > 0

\* the broker is about to call Start: descriptor 3 is a listening Unix
\* socket, another socket or closed; at the socket path there is no file,
\* a file a run before left behind, or the file of the service manager
InitSocket ==
    /\ ServerIdle
    /\ stream = NoStream /\ parsed = NotParsed
    /\ reqEnv = {} /\ rest = {} /\ env = <<>>
    /\ fs = NoFiles /\ ar = NoCalls
    /\ UpdIdle
    /\ \E l \in ListenFDs, d \in {"unix", "tcp", "closed"},
          f \in {"none", "stale", "systemd"} :
          sock = [NoSocket EXCEPT !.pc = "start", !.listenFDs = l, !.fd3 = d,
                                  !.file = f, !.file0 = f, !.listener = "none"]

SockFrame ==
    /\ UNCHANGED <<srvVars, connVars, execVars, runVars>>
    /\ UNCHANGED <<stream, parsed, reqEnv, rest, env, fs, ar, updVars>>

\* createListener: with a positive LISTEN_FDS descriptor 3 is adopted, and
\* it is an error when it is no Unix socket; else the file at the path is
\* removed (no file there is no error) and net.ListenUnix binds the path.
\* pc "failed" stands for the error returned.
createListener(s, removeOk, listenOk) ==
    IF Activated(s.listenFDs)
    THEN IF s.fd3 = "unix"
         THEN [s EXCEPT !.systemdSocket = TRUE, !.listener = "adopted"]
         ELSE [s EXCEPT !.pc = "failed"]
    ELSE IF s.file # "none" /\ ~removeOk
    THEN [s EXCEPT !.pc = "failed"]
    ELSE IF ~listenOk
    THEN [s EXCEPT !.pc = "failed", !.file = "none", !.mode = "",
                   !.did = IF s.file # "none" THEN <<"unlink">> ELSE <<>>]
    ELSE [s EXCEPT !.file = "broker", !.mode = "umask", !.listener = "bound",
                   !.did = (IF s.file # "none" THEN <<"unlink">> ELSE <<>>)
                              \o <<"bind">>]

\* setSocketPermissions: os.Chmod, and os.Chown when that worked
setSocketPermissions(s, chmodOk, chownOk) ==
    IF ~chmodOk THEN s
    ELSE [s EXCEPT !.mode = "SocketMode",
                   !.did = s.did \o <<"chmod">>
                              \o (IF chownOk THEN <<"chown">> ELSE <<>>)]

\* Server.Start; when it returns an error main exits and Shutdown is never
\* called
SockStart ==
    /\ sock.pc = "start"
    /\ \E removeOk, listenOk, chmodOk, chownOk \in BOOLEAN :
          LET made == createListener(sock, removeOk, listenOk)
          IN  sock' = IF made.pc = "failed" THEN made
                      ELSE IF ~made.systemdSocket
                      THEN [setSocketPermissions(made, chmodOk, chownOk)
                               EXCEPT !.pc = "running"]
                      ELSE [made EXCEPT !.pc = "running"]
    /\ SockFrame

\* Server.Shutdown without its test of systemdSocket
SockShutdownAlwaysRemove ==
    /\ sock.pc = "running"
    /\ sock' = [sock EXCEPT !.pc = "stopped",
                            !.file = "none",
                            !.did = IF sock.file # "none"
                                    THEN sock.did \o <<"unlink">> ELSE sock.did]
    /\ SockFrame

\* Server.Shutdown: listener.Close(), which unlinks the path of a listener
\* that net.ListenUnix made and leaves the path of an adopted one alone; the
\* wait for the handlers; os.Remove of the path unless systemdSocket
SockShutdown ==
    /\ sock.pc = "running"
    /\ LET unbound == IF sock.listener = "bound" /\ sock.file = "broker"
                     THEN [sock EXCEPT !.file = "none",
                                       !.did = sock.did \o <<"unlink">>]
                     ELSE sock
       IN  sock' = IF ~unbound.systemdSocket /\ unbound.file # "none"
                   THEN [unbound EXCEPT !.pc = "stopped", !.file = "none",
                                       !.did = unbound.did \o <<"unlink">>]
                   ELSE [unbound EXCEPT !.pc = "stopped"]
    /\ SockFrame

NextSocket ==
    \/ SockStart
    \/ SockShutdown

SpecSocket == InitSocket /\ [][NextSocket]_vars

\* C23: the socket file is removed at Shutdown if and only if the broker
\* made the listener itself.  With a positive LISTEN_FDS the listener on
\* descriptor 3 is adopted, and the broker never unlinks, binds, chmods or
\* chowns the file, at startup or at shutdown: the file stays what it was.
\* In standalone mode a file left at the path is removed before the bind.
C23_SocketFileOwnership ==
    /\ sock.pc = "stopped" =>
          /\ sock.listener = "bound" => sock.file = "none"
          /\ sock.listener = "adopted" => sock.file = sock.file0
          /\ sock.listener \in {"bound", "adopted"}
    /\ Activated(sock.listenFDs) =>
          /\ sock.did = <<>> /\ sock.file = sock.file0
          /\ sock.listener # "bound"
          /\ (sock.fd3 = "unix" /\ sock.pc \in {"running", "stopped"})
                => (sock.listener = "adopted" /\ sock.systemdSocket)
    /\ sock.listener = "bound" =>
          /\ ~Activated(sock.listenFDs) /\ ~sock.systemdSocket
          /\ IF sock.file0 # "none"
             THEN SubSeq(sock.did, 1, 2) = <<"unlink", "bind">>
             ELSE sock.did[1] = "bind"

\* a broker started by socket activation has shut down and the service
\* manager's socket file is still there
C23_AdoptedStopped ==
    /\ sock.pc = "stopped" /\ sock.listener = "adopted"
    /\ sock.listenFDs = <<"1">> /\ sock.file = "systemd"

(***************************************************************************)
(* One command connection with the flag max-exec-timeout: SpecExec without *)
(* a signal to main, with the flag 0 or positive and the timer of the      *)
(* handler's deadline.                                                     *)
(***************************************************************************)
InitTimeout ==
    /\ InitRun
    /\ maxExecTimeout \in {0, 1}
    /\ timedOut = [c \in Conns |-> FALSE]
    /\ hasCallback = [s \in Streams |-> TRUE]
    /\ blocked = [c \in Conns |-> ""]
    /\ CancelIdle

NextTimeout ==
    \/ RunStartFail(ExecConn) \/ RunStart(ExecConn)
    \/ ExecTimeout(ExecConn)
    \/ ChildExit(ExecConn) \/ ChildTerminated(ExecConn)
    \/ CancelSignal(ExecConn)
    \/ \E s \in Streams :
          \/ ChildWrite(ExecConn, s) \/ DrainRead(ExecConn, s)
          \/ DrainEOF(ExecConn, s) \/ DrainCallback(ExecConn, s)
    \/ WgWait(ExecConn) \/ Reap(ExecConn)
    \/ WriteTerminal(ExecConn) \/ HandlerReturn(ExecConn)
    \/ PeerClose(ExecConn)

SpecTimeout == InitTimeout /\ [][NextTimeout]_vars

\* the goroutines of the handler run when they can, and a child whose
\* group was sent SIGTERM ends: of the signal, or of the SIGKILL that exec
\* sends it when WaitDelay has passed.  Nothing is assumed of a child that
\* was not signalled, of the peer or of the timer.
FairTimeout ==
    /\ FairExec
    /\ WF_vars(ChildTerminated(ExecConn))

SpecTimeoutFair == SpecTimeout /\ FairTimeout

InitNilCallbacks ==
    /\ InitRun
    /\ ~peerGone[ExecConn]
    /\ maxExecTimeout = 0
    /\ timedOut = [c \in Conns |-> FALSE]
    /\ hasCallback \in [Streams -> BOOLEAN]
    /\ blocked = [c \in Conns |-> ""]
    /\ CancelIdle

NextNilCallbacks ==
    \/ RunStartFail(ExecConn) \/ RunStart(ExecConn)
    \/ ChildExit(ExecConn)
    \/ \E s \in Streams :
          \/ ChildWrite(ExecConn, s) \/ ChildBlock(ExecConn, s)
          \/ DrainRead(ExecConn, s) \/ DrainEOF(ExecConn, s)
          \/ DrainCallback(ExecConn, s)
    \/ WgWait(ExecConn) \/ Reap(ExecConn)
    \/ WriteTerminal(ExecConn) \/ HandlerReturn(ExecConn)

SpecNilCallbacks == InitNilCallbacks /\ [][NextNilCallbacks]_vars

\* the goroutines of the handler run when they can, and so does the
\* command: it goes on with a write when the pipe has room, and exits when
\* it is not in a write
FairCommand ==
    WF_vars(ChildExit(ExecConn) \/ \E s \in Streams : ChildWrite(ExecConn, s))

SpecNilCallbacksFair == SpecNilCallbacks /\ FairExec /\ FairCommand

\* C30: whichever callbacks are absent and whatever the command writes,
\* Run comes to return once the command was started, and it returns the
\* exit code of the child with no error.
C30_RunReturnsWithoutSinks ==
    /\ [](\A c \in Conns :
            (pc[c] = "term" /\ spawned[c])
                => runResult[c] = [code |-> status[c], err |-> ""])
    /\ \A c \in Conns :
          (spawned[c] /\ pc[c] \in {"wg_wait", "cmd_wait"})
              ~> (pc[c] \notin {"wg_wait", "cmd_wait"})

(***************************************************************************)
(* Executor.Run under a cancelled scope                                    *)
(***************************************************************************)
\* Run returned exit code 0 and no error
Success == [code |-> 0, err |-> ""]

BothDrained(c) == \A s \in Streams : drainer[c][s] = "done"

\* C32: the child of a command is reaped only when both drainers have
\* finished, and the Exit or Error record of a command whose child was
\* started is written only when both drainers have finished and the child
\* is reaped; the handler returns only then, so it never returns with its
\* direct child unreaped.
C32_DrainReapTerminal ==
    /\ [](\A c \in Conns :
            /\ child[c] = "reaped" => BothDrained(c)
            /\ (spawned[c] /\ pc[c] \in {"term", "ret"}) =>
                  (BothDrained(c) /\ child[c] = "reaped")
            /\ (spawned[c] /\ out[c] # <<>> /\ Last(c).type \in {"exit", "error"}) =>
                  (BothDrained(c) /\ child[c] = "reaped"))
    /\ [][\A c \in Conns :
            /\ (child[c] # "reaped" /\ child'[c] = "reaped") => BothDrained(c)
            /\ (spawned[c] /\ pc[c] # "done" /\ pc'[c] = "done") =>
                  (child[c] = "reaped" /\ Last(c).type \in {"exit", "error"})]_vars

\* C32, its case: the child had exited while a drainer still held a chunk
\* of its output; the chunk was delivered, the child reaped, Exit written
\* last
C32_DrainedReapedReported ==
    /\ pc[ExecConn] = "ret" /\ child[ExecConn] = "reaped"
    /\ BothDrained(ExecConn)
    /\ Len(out[ExecConn]) = 2
    /\ out[ExecConn][1] = StderrResponse(<<1, 2>>)
    /\ out[ExecConn][2] = ExitResponse(1)

(***************************************************************************)
(* Cancellation of a command, step by step: the signal of cmd.Cancel, the  *)
(* timer of cmd.WaitDelay and the SIGKILL that follows it, for a command   *)
(* that may have forked.                                                   *)
(***************************************************************************)
\* executor.cancelGracePeriod (5 s in the source), in steps of the timer
cancelGracePeriod == 2

CancelFrame ==
    /\ UNCHANGED <<maxExecTimeout, timedOut, hasCallback, blocked, writeMu>>
    /\ UNCHANGED <<srvVars, connVars, execVars, pureVars>>

\* the child forks: the new process is in the process group of the child
\* and has its stdout and stderr; d says what SIGTERM does to it
Fork(c, d) ==
    /\ Alive /\ child[c] = "running" /\ ~termSent[c]
    /\ descendant[c] = "none"
    /\ descendant' = [descendant EXCEPT ![c] = d]
    /\ UNCHANGED <<graceTicks, killSent>>
    /\ CancelFrame

\* the forked process ends by itself
DescendantExit(c) ==
    /\ Alive /\ descendant[c] # "none"
    /\ descendant' = [descendant EXCEPT ![c] = "none"]
    /\ UNCHANGED <<graceTicks, killSent>>
    /\ CancelFrame

\* cmd.Cancel signalled -cmd.Process.Pid, the whole group: a forked process
\* that is in the group and does not ignore SIGTERM dies of it
DescendantTerminated(c) ==
    /\ Alive /\ termSent[c]
    /\ descendant[c] = "obeys"
    /\ descendant' = [descendant EXCEPT ![c] = "none"]
    /\ UNCHANGED <<graceTicks, killSent>>
    /\ CancelFrame

\* a variant of exec's watcher that does not wait for its timer
GraceNotAwaited(c) == TRUE

\* cmd.WaitDelay has passed since cmd.Cancel returned
GraceElapsed(c) == graceTicks[c] = cancelGracePeriod

\* time passes on the timer exec's watcher started when cmd.Cancel returned
GraceTick(c) ==
    /\ Alive /\ termSent[c] /\ ~killSent[c]
    /\ graceTicks[c] < cancelGracePeriod
    /\ graceTicks' = [graceTicks EXCEPT ![c] = @ + 1]
    /\ UNCHANGED <<descendant, killSent>>
    /\ CancelFrame

\* exec's watcher: the timer fires before cmd.Wait has the wait status of
\* the child, and the watcher calls cmd.Process.Kill(): SIGKILL to the
\* child alone
KillSignal(c) ==
    /\ Alive /\ pc[c] \in {"wg_wait", "cmd_wait"}
    /\ termSent[c] /\ ~killSent[c]
    /\ GraceElapsed(c)
    /\ killSent' = [killSent EXCEPT ![c] = TRUE]
    /\ UNCHANGED <<descendant, graceTicks>>
    /\ CancelFrame

\* one command: its scope is cancelled by a failed write or by the
\* deadline of max-exec-timeout; the child writes to stdout only
InitCancel ==
    /\ InitRun
    /\ maxExecTimeout = 1
    /\ timedOut = [c \in Conns |-> FALSE]
    /\ hasCallback = [s \in Streams |-> TRUE]
    /\ blocked = [c \in Conns |-> ""]
    /\ CancelIdle

NextCancel ==
    \/ RunStartFail(ExecConn) \/ RunStart(ExecConn)
    \/ ExecTimeout(ExecConn) \/ PeerClose(ExecConn)
    \/ \E d \in {"obeys", "ignores"} : Fork(ExecConn, d)
    \/ DescendantExit(ExecConn) \/ DescendantTerminated(ExecConn)
    \/ ChildWrite(ExecConn, "stdout")
    \/ ChildExit(ExecConn) \/ ChildTerminated(ExecConn)
    \/ CancelSignal(ExecConn) \/ GraceTick(ExecConn) \/ KillSignal(ExecConn)
    \/ \E s \in Streams :
          \/ DrainRead(ExecConn, s) \/ DrainEOF(ExecConn, s)
          \/ DrainCallback(ExecConn, s)
    \/ WgWait(ExecConn) \/ Reap(ExecConn)
    \/ WriteTerminal(ExecConn) \/ HandlerReturn(ExecConn)

SpecCancel == InitCancel /\ [][NextCancel]_vars

\* the goroutines of the handler run when they can, the timer of exec runs,
\* a process of the group that does not ignore SIGTERM dies of it, and the
\* child dies of SIGKILL.  Nothing is assumed of a process that was not
\* signalled, of one that ignores SIGTERM, or of the peer.
FairCancel ==
    /\ FairExec
    /\ WF_vars(GraceTick(ExecConn))
    /\ WF_vars(KillSignal(ExecConn))
    /\ WF_vars(killSent[ExecConn] /\ ChildTerminated(ExecConn))
    /\ WF_vars(DescendantTerminated(ExecConn))

SpecCancelFair == SpecCancel /\ FairCancel

\* C33 as stated: the first signal of a cancelled command is SIGTERM to the
\* process group; SIGKILL is sent only after SIGTERM, only when the grace
\* period has passed since, and only to a child that has not exited.
C33_KillOnlyIfNotExited ==
    /\ [](\A c \in Conns : killSent[c] => graceTicks[c] = cancelGracePeriod)
    /\ [][\A c \in Conns :
            /\ (~termSent[c] /\ termSent'[c]) => (CtxDone(c) /\ ~killSent[c])
            /\ (~killSent[c] /\ killSent'[c]) =>
                  /\ termSent[c] /\ graceTicks[c] = cancelGracePeriod
                  /\ child[c] = "running"]_vars

\* C33, amended: the first signal of a cancelled command is SIGTERM, and it
\* goes to the process group, so that a forked process of the group that
\* does not ignore it can die of it; SIGKILL is sent only after SIGTERM,
\* only when the grace period has passed since, only while cmd.Wait has not
\* reaped the child, and to the child alone.  The child may have exited
\* already: the SIGKILL then reaches a process that is waiting to be
\* reaped.
C33_GracefulThenForceful ==
    /\ [](\A c \in Conns :
            /\ killSent[c] => graceTicks[c] = cancelGracePeriod
            /\ (termSent[c] /\ descendant[c] = "obeys")
                  => ENABLED DescendantTerminated(c))
    /\ [][\A c \in Conns :
            /\ (~termSent[c] /\ termSent'[c]) => (CtxDone(c) /\ ~killSent[c])
            /\ (~killSent[c] /\ killSent'[c]) =>
                  /\ termSent[c] /\ graceTicks[c] = cancelGracePeriod
                  /\ child[c] \in {"running", "exited", "killed"}
                  /\ descendant'[c] = descendant[c]]_vars

\* C33, its case: the child did not die of SIGTERM, the grace period
\* passed, SIGKILL was sent and the child died of it; Run returned -1
C33_KilledAfterGrace ==
    /\ killSent[ExecConn] /\ graceTicks[ExecConn] = cancelGracePeriod
    /\ pc[ExecConn] = "term" /\ status[ExecConn] = -1
    /\ runResult[ExecConn] = [code |-> -1, err |-> ""]

\* C34: once the scope of a running command is done, Run comes to return
\* and the handler comes to return, to close the connection and to release
\* its slot of the gate, whatever the processes of the command do with the
\* signal and with the pipes.
C34_CancelledRunReturns ==
    \A c \in Conns :
        (CtxDone(c) /\ spawned[c] /\ pc[c] \in {"wg_wait", "cmd_wait"})
            ~> (pc[c] = "done" /\ closed[c] /\ connSem = 0)

\* the same for a command of which no process ignores SIGTERM or keeps a
\* pipe open outside the group
C34_ObedientRunReturns ==
    \A c \in Conns :
        [](descendant[c] # "ignores") =>
           ((CtxDone(c) /\ spawned[c] /\ pc[c] \in {"wg_wait", "cmd_wait"})
               ~> (pc[c] = "done" /\ closed[c] /\ connSem = 0))

\* C35: a stream that ends without a newline after at most MaxRequestSize
\* bytes is reported as "reading request"; a line of MaxRequestSize bytes
\* with its newline is read whole and handed to the JSON parser; and
\* "request too large" is reported only for a stream with more than
\* MaxRequestSize bytes before its first newline.
C35_FramingUpToLimit ==
    parsed # NotParsed =>
        /\ (~stream.nl /\ stream.len <= MaxRequestSize)
              => parsed.err = "reading request"
        /\ (stream.nl /\ stream.len + 1 = MaxRequestSize)
              => /\ parsed.err \notin {"reading request", "request too large"}
                 /\ parsed.read = MaxRequestSize
        /\ parsed.err = "request too large" => stream.len > MaxRequestSize

\* the same with the limit counted as the code counts it: "request too
\* large" whenever MaxRequestSize bytes were read and no newline was among
\* them, whether or not more bytes follow
C35_FramingBelowLimit ==
    parsed # NotParsed =>
        /\ (~stream.nl /\ stream.len < MaxRequestSize)
              => parsed.err = "reading request"
        /\ (stream.nl /\ stream.len + 1 <= MaxRequestSize)
              => /\ parsed.err \notin {"reading request", "request too large"}
                 /\ parsed.read = stream.len + 1
        /\ parsed.err = "request too large" <=> stream.len >= MaxRequestSize

(***************************************************************************)
(* The gate connSem and the handlers                                       *)
(***************************************************************************)
\* the handlers that were admitted and have not returned
Admitted == {c \in Conns : Running(c)}

\* C36: the occupied slots of the gate are as many as the handlers that
\* were admitted and have not returned, and so is the wait group; an
\* admission takes one slot, the return of a handler releases one slot on
\* whatever path it got there, a rejected connection leaves the gate as it
\* was, and the gate is empty when no handler is left.
C36_GateCountsHandlers ==
    /\ [](connSem = Cardinality(Admitted) /\ wg = connSem)
    /\ []((\A c \in Conns : ~Running(c)) => connSem = 0)
    /\ [][ \A c \in Conns :
             /\ (pc[c] = "none" /\ pc'[c] = "parse") => connSem' = connSem + 1
             /\ (pc[c] # "done" /\ pc'[c] = "done") =>
                    (pc[c] = "ret" /\ connSem' = connSem - 1)
             /\ (pc[c] = "none" /\ ~closed[c] /\ closed'[c]) =>
                    (pc'[c] = "none" /\ connSem' = connSem) ]_vars

\* C36, its case: two handlers were admitted; one has returned after its
\* peer had gone, the other is running and holds the one occupied slot
C36_OneReturnedOneRunning ==
    \E c, d \in Conns :
        /\ pc[c] = "done" /\ closed[c]
        /\ Running(d)
        /\ connSem = 1 /\ wg = 1

(***************************************************************************)
(* The accept loop against Shutdown                                        *)
(***************************************************************************)
\* C37 as stated: once Shutdown has seen the wait group drained no handler
\* is running, and none starts afterwards.
C37_NoHandlerAfterDrain ==
    mainPc = "drained" => \A c \in Conns : ~Running(c)

\* C37, the part that holds: at the moment Shutdown sees the wait group
\* drained no handler is running, and a handler that starts afterwards
\* belongs to a connection that AcceptUnix had returned before the
\* listener was closed.
C37_DrainedAtTheMoment ==
    [][ /\ (mainPc = "draining" /\ mainPc' = "drained") =>
               (wg = 0 /\ \A c \in Conns : ~Running(c))
        /\ \A c \in Conns :
               (mainPc = "drained" /\ pc[c] = "none" /\ pc'[c] = "parse") =>
                   (acceptPc = "conn" /\ acceptConn = c /\ listener = "closed") ]_vars

(***************************************************************************)
(* The server with the flag max-exec-timeout: the server specification     *)
(* with the flag 0 or positive and the timer of each handler's deadline,   *)
(* so that the scopes of two commands can end for different reasons.       *)
(***************************************************************************)
InitScopes ==
    /\ PureIdle /\ InitServer
    /\ maxExecTimeout \in {0, 1}
    /\ timedOut = [c \in Conns |-> FALSE]
    /\ hasCallback = [s \in Streams |-> TRUE]
    /\ blocked = [c \in Conns |-> ""]
    /\ CancelIdle

NextScopes ==
    \/ Next
    \/ \E c \in Conns : ExecTimeout(c)

SpecScopes == InitScopes /\ [][NextScopes]_vars

\* execCancel() of c's handler is called after a failed write, or the
\* deadline of c's handler passes, in this step
ScopeCancelled(c) ==
    \/ ~execCancelled[c] /\ execCancelled'[c]
    \/ ~timedOut[c] /\ timedOut'[c]

\* C38: a step in which a write of one connection fails and its handler
\* cancels, or its command's deadline passes, leaves the root scope as it
\* was, and for every other connection its scope, the signal to its
\* command and its command; and a command is signalled only when the root
\* scope or the scope of its own connection is done.
C38_CancelsOwnScopeOnly ==
    /\ [][ \A c \in Conns :
             ScopeCancelled(c) =>
                 /\ rootCancelled' = rootCancelled
                 /\ \A d \in Conns \ {c} :
                        /\ execCancelled'[d] = execCancelled[d]
                        /\ timedOut'[d] = timedOut[d]
                        /\ termSent'[d] = termSent[d]
                        /\ child'[d] = child[d]
                        /\ pc'[d] = pc[d] ]_vars
    /\ [](\A d \in Conns :
             termSent[d] => (rootCancelled \/ execCancelled[d] \/ timedOut[d]))

\* C38, its case: the deadline of one command has passed and a write to
\* its peer has failed, its group was signalled; the command of the other
\* connection runs, its scope is not done and it was not signalled
C38_OtherCommandUntouched ==
    \E c, d \in Conns :
        /\ c # d
        /\ timedOut[c] /\ execCancelled[c] /\ termSent[c]
        /\ ~rootCancelled
        /\ child[d] = "running" /\ ~CtxDone(d) /\ ~termSent[d]

(***************************************************************************)
(* The drain of Shutdown and a handler at ParseRequest                     *)
(***************************************************************************)
\* The goroutines of the broker run when they can: the context watchers,
\* main, Shutdown's wait, and each handler from the start of its command to
\* its return; a signalled command dies.  Nothing is assumed of the peers
\* (the steps out of ParseRequest need the peer's bytes or its close), of
\* the network, of a command that was not signalled or of the deadline of
\* Shutdown.
FairDrain ==
    /\ FairWatchers
    /\ WF_vars(RestartReceived)
    /\ WF_vars(ShutdownDrained)
    /\ WF_vars(MainReturn)
    /\ \A c \in Conns :
          /\ WF_vars(RunStartFail(c) \/ RunStart(c))
          /\ WF_vars(ChildTerminated(c))
          /\ WF_vars(RunReturn(c))
          /\ WF_vars(WriteTerminal(c))
          /\ WF_vars(HandlerReturn(c))

SpecDrainFair == Spec /\ FairDrain

\* C39 as stated, with the least it asks: a handler that is at ParseRequest
\* when the root scope is cancelled and Shutdown waits comes to return, or
\* at least the deadline of Shutdown ends the process; it does not wait
\* for its peer for ever.
C39_WaitingHandlerReturns ==
    \A c \in Conns :
        (rootCancelled /\ mainPc = "draining" /\ pc[c] = "parse")
            ~> (pc[c] \in {"done", "killed"})

\* C39, the part that holds: a handler whose command runs when the root
\* scope is cancelled and Shutdown waits comes to return, or the deadline
\* of Shutdown ends the process first.
C39_RunningCommandReturns ==
    \A c \in Conns :
        (rootCancelled /\ mainPc = "draining" /\ pc[c] \in {"run", "wg_wait", "term", "ret"})
            ~> (pc[c] \in {"done", "killed"})

(***************************************************************************)
(* One command connection with the writer mutex: the two drainers in their *)
(* callbacks and the handler after Run take writeMu before they write.     *)
(* No signal to main, no deadline.                                         *)
(***************************************************************************)
\* the goroutines of a handler that call writeResponse
Writers == Streams \cup {"main"}

\* writeMu.Lock() in writeResponse returns: w holds the mutex and is about
\* to write
Lock(c, w) ==
    /\ Alive /\ writeMu[c] = ""
    /\ IF w = "main" THEN pc[c] = "term" ELSE drainer[c][w] = "cb"
    /\ writeMu' = [writeMu EXCEPT ![c] = w]
    /\ UNCHANGED <<maxExecTimeout, timedOut, hasCallback, blocked, cancelVars>>
    /\ UNCHANGED <<srvVars, connVars, execVars, pureVars>>

NextMutex ==
    \/ RunStartFail(ExecConn) \/ RunStart(ExecConn)
    \/ ChildExit(ExecConn) \/ ChildTerminated(ExecConn)
    \/ CancelSignal(ExecConn)
    \/ \E s \in Streams :
          \/ ChildWrite(ExecConn, s) \/ DrainRead(ExecConn, s)
          \/ DrainEOF(ExecConn, s) \/ DrainCallback(ExecConn, s)
    \/ \E w \in Writers : Lock(ExecConn, w)
    \/ WgWait(ExecConn) \/ Reap(ExecConn)
    \/ WriteTerminal(ExecConn) \/ HandlerReturn(ExecConn)
    \/ PeerClose(ExecConn)

SpecMutex == InitExec /\ [][NextMutex]_vars

\* the goroutines of the handler run when they can, one that waits for
\* writeMu gets it when it stays free, the command goes on to its exit and
\* a signalled command dies.  Nothing is assumed of the peer.
FairMutex ==
    /\ FairExec
    /\ FairCommand
    /\ WF_vars(ChildTerminated(ExecConn))
    /\ \A w \in Writers : WF_vars(Lock(ExecConn, w))

SpecMutexFair == SpecMutex /\ FairMutex

\* C40: writeMu is held only by a goroutine that is about to write; a
\* handler that calls Run comes to have written its terminal record, to a
\* peer that reads or to one that is gone, as its last record; and a
\* handler that has written it returns: the connection is closed, the
\* mutex is free and the slot of the gate is released.
C40_HandlerCompletes ==
    /\ [](\A c \in Conns :
             /\ writeMu[c] = "main" => pc[c] = "term"
             /\ \A s \in Streams : writeMu[c] = s => drainer[c][s] = "cb")
    /\ \A c \in Conns :
          (pc[c] \in {"run", "wg_wait", "cmd_wait", "term"})
              ~> (pc[c] = "ret" /\ Last(c) = TerminalResponse(runResult[c]))
    /\ \A c \in Conns :
          (pc[c] = "ret")
              ~> (pc[c] = "done" /\ closed[c] /\ writeMu[c] = "" /\ connSem = 0)

\* C40, its case: the command has exited, the drainer of stdout holds
\* writeMu in its callback, the drainer of stderr waits for it with a
\* chunk of its own, and Run waits for both
C40_DrainersContend ==
    \E c \in Conns :
        /\ pc[c] = "wg_wait" /\ child[c] = "exited"
        /\ writeMu[c] = "stdout"
        /\ drainer[c]["stdout"] = "cb" /\ drainer[c]["stderr"] = "cb"

=============================================================================
